---- MODULE Spec2Model ----
(***************************************************************************)
(* Expense tracker backend: the budget store, the expense store and the   *)
(* request handlers of BudgetController and ExpenseController.            *)
(*                                                                         *)
(* Amounts are whole currency units.  Percentages are exact rationals,    *)
(* kept as a numerator/denominator pair, so a comparison such as          *)
(* percentageUsed >= 90 is decided without rounding; IEEE-754 rounding    *)
(* error of the JavaScript arithmetic is not modelled.                    *)
(* Numeric request fields arrive as digit strings and are modelled as     *)
(* sequences of digits; the empty sequence is a missing (falsy) field.    *)
(***************************************************************************)
EXTENDS Integers, Sequences, FiniteSets, TLC

VARIABLES
    budgets,        \* the Budget collection: a set of budget documents
    expenses,       \* the Expense collection: a set of expense documents
    nextBudgetId,   \* the _id the next inserted budget gets
    nextExpenseId,  \* the _id the next inserted expense gets
    reqs,           \* createOrUpdateBudget requests in flight, per slot
    resp,           \* the response of the last single-step handler
    today,          \* the server's current date
    expensesPage    \* the ExpensesPage component: its state and calls in flight

vars == <<budgets, expenses, nextBudgetId, nextExpenseId, reqs, resp, today, expensesPage>>

(***************************************************************************)
(* Bounds and input sets                                                   *)
(***************************************************************************)
MaxBudgetId == 2
MaxExpenseId == 3

Users == {"u1", "u2"}
Slots == {"r1", "r2"}

\* Budget.js: category enum
Categories ==
    {"groceries", "utilities", "transportation", "entertainment", "healthcare",
     "dining", "shopping", "education", "travel", "housing", "insurance",
     "savings", "other"}

MinMonth == 1
MaxMonth == 12
MinYear == 2000
MaxYear == 2100

NoId == 0

(***************************************************************************)
(* Conversions                                                             *)
(***************************************************************************)
\* String.prototype.toLowerCase over the category spellings requests carry
ToLowerCase(s) ==
    CASE s = "Dining" -> "dining"
      [] s = "GROCERIES" -> "groceries"
      [] OTHER -> s

RECURSIVE DigitsValue(_)
DigitsValue(ds) ==
    IF ds = <<>> THEN 0
    ELSE 10 * DigitsValue(SubSeq(ds, 1, Len(ds) - 1)) + ds[Len(ds)]

\* parseInt / parseFloat of a digit string
ParseInt(ds) == DigitsValue(ds)
ParseFloat(ds) == DigitsValue(ds)

\* JavaScript truthiness of a request field: the empty string is falsy
TruthyDigits(ds) == ds /= <<>>
TruthyString(s) == s /= ""

(***************************************************************************)
(* Budget schema                                                           *)
(***************************************************************************)
\* mutant: an amount of 0 let through
AmountValidFromZero(a) == a >= 0

\* amount: min 0.01 and validator Number.isFinite(value) && value > 0
AmountValid(a) == a >= 1 /\ a > 0

\* schema validation run by save()
BudgetValid(doc) ==
    /\ doc.category \in Categories
    /\ AmountValid(doc.amount)
    /\ doc.month >= MinMonth /\ doc.month <= MaxMonth
    /\ doc.year >= MinYear /\ doc.year <= MaxYear

SameTuple(a, b) ==
    /\ a.user = b.user
    /\ a.category = b.category
    /\ a.month = b.month
    /\ a.year = b.year

\* mutant: the compound index is declared without { unique: true }
UniqueIndexNotUnique(bs, doc) == TRUE

\* the unique compound index { user, category, month, year }
UniqueIndexAdmits(bs, doc) == \A b \in bs : ~SameTuple(b, doc)

\* Budget.findOne({ user, category, month, year }): the _id found, or NoId
BudgetFindOne(bs, u, cat, m, y) ==
    LET hits == {b \in bs : b.user = u /\ b.category = cat /\ b.month = m /\ b.year = y}
    IN  IF hits = {} THEN NoId ELSE (CHOOSE b \in hits : TRUE).id

BudgetById(bs, id) == CHOOSE b \in bs : b.id = id

(***************************************************************************)
(* createOrUpdateBudget                                                    *)
(***************************************************************************)
NoError == "none"

IdleReq ==
    [pc |-> "idle", user |-> "", category |-> "", amount |-> <<>>, month |-> <<>>,
     year |-> <<>>, existing |-> NoId, status |-> 0, message |-> "",
     budgetId |-> NoId, budgetAmount |-> 0]

\* mutant: the catch block without its error.code === 11000 branch
BudgetErrorResponseNoDuplicateBranch(errName, errCode) ==
    IF errName = "ValidationError"
    THEN [success |-> FALSE, status |-> 400, message |-> "Validation failed"]
    ELSE [success |-> FALSE, status |-> 500, message |-> "Internal server error"]

\* the catch block: the response an error thrown by the handler's body gets
BudgetErrorResponse(errName, errCode) ==
    IF errName = "ValidationError"
    THEN [success |-> FALSE, status |-> 400, message |-> "Validation failed"]
    ELSE IF errCode = 11000
    THEN [success |-> FALSE, status |-> 400, message |-> "Budget already exists for this category and period"]
    ELSE [success |-> FALSE, status |-> 500, message |-> "Internal server error"]

\* Budget.findByIdAndUpdate(id, { amount, notes, isActive: true },
\*                          { new: true, runValidators: true })
\* the store afterwards, the document returned (NoId for null) and the error
FindByIdAndUpdate(bs, id, amount) ==
    IF ~AmountValid(amount)
    THEN [budgets |-> bs, budgetId |-> NoId, errName |-> "ValidationError", errCode |-> 0]
    ELSE IF \E b \in bs : b.id = id
    THEN LET old == BudgetById(bs, id)
             new == [old EXCEPT !.amount = amount, !.isActive = TRUE]
         IN  [budgets |-> (bs \ {old}) \cup {new}, budgetId |-> id,
              errName |-> NoError, errCode |-> 0]
    ELSE [budgets |-> bs, budgetId |-> NoId, errName |-> NoError, errCode |-> 0]

\* budget.save() of a new document: schema validation, then the insert, which the
\* unique index refuses with E11000
BudgetSave(bs, doc) ==
    IF ~BudgetValid(doc)
    THEN [budgets |-> bs, budgetId |-> NoId, errName |-> "ValidationError", errCode |-> 0]
    ELSE IF ~UniqueIndexAdmits(bs, doc)
    THEN [budgets |-> bs, budgetId |-> NoId, errName |-> "MongoServerError", errCode |-> 11000]
    ELSE [budgets |-> bs \cup {doc}, budgetId |-> doc.id, errName |-> NoError, errCode |-> 0]

\* the request body misses a required field: 400 before any query
CreateRejectMissing(r, u, cat, amt, m, y) ==
    /\ reqs[r].pc = "idle"
    /\ ~(cat /= "" /\ amt /= <<>> /\ m /= <<>> /\ y /= <<>>)
    /\ reqs' = [reqs EXCEPT ![r] =
                    [IdleReq EXCEPT !.pc = "done", !.user = u, !.category = cat,
                                    !.amount = amt, !.month = m, !.year = y,
                                    !.status = 400,
                                    !.message = "Category, amount, month, and year are required"]]
    /\ UNCHANGED <<budgets, expenses, nextBudgetId, nextExpenseId, resp, today, expensesPage>>

\* the fields are all present
RequiredPresent(cat, amt, m, y) ==
    TruthyString(cat) /\ TruthyDigits(amt) /\ TruthyDigits(m) /\ TruthyDigits(y)

\* the request once its Budget.findOne on store bs has answered
LookedReq(bs, u, cat, amt, m, y) ==
    [IdleReq EXCEPT !.pc = "looked", !.user = u, !.category = cat,
                    !.amount = amt, !.month = m, !.year = y,
                    !.existing = BudgetFindOne(bs, u, ToLowerCase(cat),
                                               ParseInt(m), ParseInt(y))]

\* the handler up to and including its Budget.findOne
CreateLookup(r, u, cat, amt, m, y) ==
    /\ reqs[r].pc = "idle"
    /\ RequiredPresent(cat, amt, m, y)
    /\ reqs' = [reqs EXCEPT ![r] = LookedReq(budgets, u, cat, amt, m, y)]
    /\ UNCHANGED <<budgets, expenses, nextBudgetId, nextExpenseId, resp, today, expensesPage>>

\* mutant: the schema default of isActive set to false
NewBudgetInactive(q, id) ==
    [id |-> id, user |-> q.user, category |-> ToLowerCase(q.category),
     amount |-> ParseFloat(q.amount), month |-> ParseInt(q.month),
     year |-> ParseInt(q.year), isActive |-> FALSE]

\* the document new Budget({...}) builds for request q
NewBudget(q, id) ==
    [id |-> id, user |-> q.user, category |-> ToLowerCase(q.category),
     amount |-> ParseFloat(q.amount), month |-> ParseInt(q.month),
     year |-> ParseInt(q.year), isActive |-> TRUE]

\* mutant: the handler saves a new document whether or not one was found
CreateWriteAlwaysSave(bs, q, id) == BudgetSave(bs, NewBudget(q, id))

\* the write of request q (findByIdAndUpdate or save) on store bs
CreateWriteResult(bs, q, id) ==
    IF q.existing /= NoId
    THEN FindByIdAndUpdate(bs, q.existing, ParseFloat(q.amount))
    ELSE BudgetSave(bs, NewBudget(q, id))

\* the status and message request q answers with after write result w
CreateResponse(q, w) ==
    IF w.errName /= NoError THEN BudgetErrorResponse(w.errName, w.errCode)
    ELSE IF q.existing /= NoId
    THEN [success |-> TRUE, status |-> 200, message |-> "Budget updated successfully"]
    ELSE [success |-> TRUE, status |-> 201, message |-> "Budget created successfully"]

\* the handler from its write to its response
CreateWrite(r) ==
    /\ reqs[r].pc = "looked"
    /\ reqs[r].existing = NoId => nextBudgetId <= MaxBudgetId
    /\ LET q == reqs[r]
           w == CreateWriteResult(budgets, q, nextBudgetId)
           a == CreateResponse(q, w)
       IN  /\ budgets' = w.budgets
           /\ nextBudgetId' = IF q.existing = NoId /\ w.errName = NoError
                               THEN nextBudgetId + 1 ELSE nextBudgetId
           /\ reqs' = [reqs EXCEPT ![r] =
                           [q EXCEPT !.pc = "done", !.status = a.status,
                                     !.message = a.message, !.budgetId = w.budgetId,
                                     !.budgetAmount =
                                         IF w.budgetId = NoId THEN 0
                                         ELSE BudgetById(w.budgets, w.budgetId).amount]]
    /\ UNCHANGED <<expenses, nextExpenseId, resp, today, expensesPage>>

\* the response is sent and the request ends
CreateFinish(r) ==
    /\ reqs[r].pc = "done"
    /\ reqs' = [reqs EXCEPT ![r] = IdleReq]
    /\ UNCHANGED <<budgets, expenses, nextBudgetId, nextExpenseId, resp, today, expensesPage>>

(***************************************************************************)
(* deleteBudget                                                            *)
(***************************************************************************)
NoResp == [op |-> "none", user |-> "", status |-> 0, message |-> ""]

\* mongoose.Types.ObjectId.isValid: the model's ids are the positive integers
IdIsValid(id) == id >= 1

\* Budget.findOneAndDelete({ _id: id, user })
BudgetFindOneAndDelete(bs, id, u) == {b \in bs : ~(b.id = id /\ b.user = u)}

deleteBudget(u, id) ==
    /\ resp' =
         IF ~IdIsValid(id)
         THEN [op |-> "deleteBudget", user |-> u, success |-> FALSE, status |-> 400, message |-> "Invalid budget ID"]
         ELSE IF \E b \in budgets : b.id = id /\ b.user = u
         THEN [op |-> "deleteBudget", user |-> u, success |-> TRUE, status |-> 200,
               message |-> "Budget deleted successfully"]
         ELSE [op |-> "deleteBudget", user |-> u, success |-> FALSE, status |-> 404, message |-> "Budget not found"]
    /\ budgets' = IF IdIsValid(id) THEN BudgetFindOneAndDelete(budgets, id, u) ELSE budgets
    /\ UNCHANGED <<expenses, nextBudgetId, nextExpenseId, reqs, today, expensesPage>>

(***************************************************************************)
(* Spec: concurrent createOrUpdateBudget and deleteBudget requests         *)
(***************************************************************************)
Y2024 == <<2, 0, 2, 4>>

\* the request bodies POST /api/budgets is driven with
BudgetBodies ==
    {[category |-> "dining", amount |-> <<8, 0>>, month |-> <<5>>, year |-> Y2024],
     [category |-> "Dining", amount |-> <<1, 0, 0>>, month |-> <<0, 5>>, year |-> Y2024],
     [category |-> "dining", amount |-> <<0>>, month |-> <<5>>, year |-> Y2024],
     [category |-> "dining", amount |-> <<>>, month |-> <<5>>, year |-> Y2024]}

\* the filters ExpensesPage starts with
InitialFilters == [category |-> "all", sortBy |-> "date", sortOrder |-> "desc"]

\* the pagination ExpensesPage starts with
InitialPagination == [currentPage |-> 1, totalPages |-> 1, totalExpenses |-> 0]

\* ExpensesPage before it is mounted: the useState initial values, no call made
Unmounted ==
    [expenses |-> <<>>, loading |-> TRUE, isModalOpen |-> FALSE, editingExpense |-> 0,
     submitting |-> FALSE, filters |-> InitialFilters, pagination |-> InitialPagination,
     calls |-> <<>>]

Today0 == [year |-> 2024, month |-> 5, day |-> 20]

Init ==
    /\ budgets = {}
    /\ expenses = {}
    /\ nextBudgetId = 1
    /\ nextExpenseId = 1
    /\ reqs = [r \in Slots |-> IdleReq]
    /\ resp = NoResp
    /\ today = Today0
    /\ expensesPage = Unmounted

Next ==
    \/ \E r \in Slots, u \in Users, b \in BudgetBodies :
          CreateRejectMissing(r, u, b.category, b.amount, b.month, b.year)
    \/ \E r \in Slots, u \in Users, b \in BudgetBodies :
          CreateLookup(r, u, b.category, b.amount, b.month, b.year)
    \/ \E r \in Slots : CreateWrite(r)
    \/ \E r \in Slots : CreateFinish(r)
    \/ \E u \in Users, id \in 1 .. MaxBudgetId : deleteBudget(u, id)

Spec == Init /\ [][Next]_vars

(***************************************************************************)
(* Claims on the budget store                                              *)
(***************************************************************************)
\* the budgets of store bs that carry the tuple request q names
TupleBudgets(bs, q) ==
    {b \in bs : /\ b.user = q.user
                /\ b.category = ToLowerCase(q.category)
                /\ b.month = ParseInt(q.month)
                /\ b.year = ParseInt(q.year)}

\* request q passes the schema validation
RequestValid(q) == BudgetValid(NewBudget(q, NoId))

AlreadyExists == "Budget already exists for this category and period"

\* C1: the budget store never holds two budget records with the same
\* (user, category, month, year) tuple, whatever createOrUpdateBudget and
\* deleteBudget requests ran and however they interleaved.
C1_OneBudgetPerTuple ==
    \A a \in budgets : \A b \in budgets : SameTuple(a, b) => a = b

\* a second insert of a stored tuple was attempted and refused
C1_Witness ==
    \E r \in Slots :
        /\ reqs[r].pc = "done"
        /\ reqs[r].message = AlreadyExists
        /\ Cardinality(TupleBudgets(budgets, reqs[r])) = 1

\* C2: a createOrUpdateBudget that passes validation and runs with no other
\* request between its lookup and its write answers 201 and adds one record
\* when the user has no budget for the tuple; when the user has one, it
\* answers 200, the number of records does not change, the record keeps its
\* id and its amount becomes the amount of the request.
C2_RepeatedCreateUpdates ==
    [][\A r \in Slots :
         LET q == reqs[r]
             found == BudgetFindOne(budgets, q.user, ToLowerCase(q.category),
                                    ParseInt(q.month), ParseInt(q.year))
         IN  (/\ q.pc = "looked"
              /\ reqs'[r].pc = "done"
              /\ RequestValid(q)
              /\ q.existing = found)
             => IF found = NoId
                THEN /\ reqs'[r].status = 201
                     /\ Cardinality(budgets') = Cardinality(budgets) + 1
                     /\ Cardinality(TupleBudgets(budgets', q)) = 1
                ELSE /\ reqs'[r].status = 200
                     /\ Cardinality(budgets') = Cardinality(budgets)
                     /\ {b.id : b \in TupleBudgets(budgets', q)} = {found}
                     /\ \A b \in TupleBudgets(budgets', q) :
                            b.amount = ParseFloat(q.amount)
      ]_vars

\* a repeated call has answered 200 and changed the amount of the record it found
C2_Witness ==
    \E r \in Slots :
        /\ reqs[r].pc = "done"
        /\ reqs[r].status = 200
        /\ reqs[r].existing /= NoId
        /\ reqs[r].budgetId = reqs[r].existing
        /\ ParseFloat(reqs[r].amount) = 100
        /\ \E b \in budgets : b.id = reqs[r].existing /\ b.amount = 100

\* requests a and b name the same tuple
SameRequestTuple(a, b) ==
    /\ a.user = b.user
    /\ ToLowerCase(a.category) = ToLowerCase(b.category)
    /\ ParseInt(a.month) = ParseInt(b.month)
    /\ ParseInt(a.year) = ParseInt(b.year)

SuccessOrAlreadyExists(q) ==
    \/ q.status = 200 /\ q.message = "Budget updated successfully"
    \/ q.status = 201 /\ q.message = "Budget created successfully"
    \/ q.status = 400 /\ q.message = AlreadyExists

\* requests a and b looked the same tuple up before either wrote, b has not
\* written yet, and no third request has touched the tuple since
Racing(a, b) ==
    /\ reqs[b].pc = "looked"
    /\ reqs[a].pc \in {"looked", "done"}
    /\ SameRequestTuple(reqs[a], reqs[b])
    /\ RequestValid(reqs[a]) /\ RequestValid(reqs[b])
    /\ reqs[a].existing = reqs[b].existing
    /\ LET found == BudgetFindOne(budgets, reqs[b].user, ToLowerCase(reqs[b].category),
                                  ParseInt(reqs[b].month), ParseInt(reqs[b].year))
       IN  IF reqs[a].pc = "done" /\ reqs[a].existing = NoId
           THEN found /= NoId /\ found = reqs[a].budgetId
           ELSE found = reqs[b].existing

\* C3: when two valid createOrUpdateBudget requests for the same tuple both
\* look the tuple up before either writes, each write ends with a success
\* response (200 updated, 201 created) or with 400 and the 'already exists'
\* message, never with 500, and leaves exactly one record for the tuple.
C3_RacingUpserts ==
    [][\A a \in Slots : \A b \in Slots :
         (a /= b /\ Racing(a, b) /\ reqs'[b].pc = "done")
         => /\ SuccessOrAlreadyExists(reqs'[b])
            /\ reqs'[b].status /= 500
            /\ reqs[a].pc = "done" => SuccessOrAlreadyExists(reqs[a])
            /\ Cardinality(TupleBudgets(budgets', reqs[b])) = 1
      ]_vars

\* both requests found nothing; one created the record, the other was refused
C3_Witness ==
    \E a \in Slots : \E b \in Slots :
        /\ a /= b
        /\ reqs[a].pc = "done" /\ reqs[b].pc = "done"
        /\ SameRequestTuple(reqs[a], reqs[b])
        /\ reqs[a].existing = NoId /\ reqs[b].existing = NoId
        /\ reqs[a].status = 201
        /\ reqs[b].status = 400 /\ reqs[b].message = AlreadyExists
        /\ Cardinality(TupleBudgets(budgets, reqs[a])) = 1

(***************************************************************************)
(* createOrUpdateBudget run from request to response with no other request *)
(* in between                                                              *)
(***************************************************************************)
createOrUpdateBudget(u, cat, amt, m, y) ==
    /\ nextBudgetId <= MaxBudgetId
    /\ IF ~RequiredPresent(cat, amt, m, y)
       THEN /\ resp' = [op |-> "createOrUpdateBudget", user |-> u, success |-> FALSE, status |-> 400,
                        message |-> "Category, amount, month, and year are required",
                        budgetId |-> NoId, budgetAmount |-> 0]
            /\ UNCHANGED <<budgets, nextBudgetId>>
       ELSE LET q == LookedReq(budgets, u, cat, amt, m, y)
                w == CreateWriteResult(budgets, q, nextBudgetId)
                a == CreateResponse(q, w)
            IN  /\ budgets' = w.budgets
                /\ nextBudgetId' = IF q.existing = NoId /\ w.errName = NoError
                                    THEN nextBudgetId + 1 ELSE nextBudgetId
                /\ resp' = [op |-> "createOrUpdateBudget", user |-> u,
                            success |-> a.success,
                            status |-> a.status, message |-> a.message,
                            budgetId |-> w.budgetId,
                            budgetAmount |-> IF w.budgetId = NoId THEN 0
                                             ELSE BudgetById(w.budgets, w.budgetId).amount]
    /\ UNCHANGED <<expenses, nextExpenseId, reqs, today, expensesPage>>

(***************************************************************************)
(* Expense schema and addExpense                                           *)
(***************************************************************************)
\* a date is a calendar day in the server's time zone
NoDate == [year |-> 0, month |-> 0, day |-> 0]

DateLE(a, b) ==
    \/ a.year < b.year
    \/ a.year = b.year /\ a.month < b.month
    \/ a.year = b.year /\ a.month = b.month /\ a.day <= b.day

IsLeapYear(y) == (y % 4 = 0 /\ y % 100 /= 0) \/ y % 400 = 0

\* new Date(year, month, 0).getDate()
DaysInMonth(y, m) ==
    IF m = 2 THEN (IF IsLeapYear(y) THEN 29 ELSE 28)
    ELSE IF m \in {4, 6, 9, 11} THEN 30 ELSE 31

\* schema validation run by expense.save()
ExpenseValid(doc, now) ==
    /\ doc.description /= ""
    /\ AmountValid(doc.amount)
    /\ doc.category \in Categories
    /\ DateLE(doc.date, now)

\* the document new Expense({...}) builds: category has lowercase: true
NewExpense(u, body, id, now) ==
    [id |-> id, user |-> u, description |-> body.description, amount |-> body.amount,
     category |-> ToLowerCase(body.category),
     date |-> IF body.date = NoDate THEN now ELSE body.date]

addExpense(u, body) ==
    /\ nextExpenseId <= MaxExpenseId
    /\ LET doc == NewExpense(u, body, nextExpenseId, today)
       IN  IF ExpenseValid(doc, today)
           THEN /\ expenses' = expenses \cup {doc}
                /\ nextExpenseId' = nextExpenseId + 1
                /\ resp' = [op |-> "addExpense", user |-> u, success |-> TRUE, status |-> 201,
                            message |-> "Expense added successfully"]
           ELSE /\ UNCHANGED <<expenses, nextExpenseId>>
                /\ resp' = [op |-> "addExpense", user |-> u, success |-> FALSE, status |-> 400,
                            message |-> "Validation failed"]
    /\ UNCHANGED <<budgets, nextBudgetId, reqs, today, expensesPage>>

(***************************************************************************)
(* Budget comparison                                                       *)
(***************************************************************************)
RECURSIVE SumAmounts(_)
\* { $sum: '$amount' } and reduce((sum, x) => sum + x.amount, 0)
SumAmounts(S) ==
    IF S = {} THEN 0
    ELSE LET x == CHOOSE x \in S : TRUE IN x.amount + SumAmounts(S \ {x})

\* date: { $gte: new Date(year, month - 1, 1), $lte: new Date(year, month, 0, 23, 59, 59, 999) }
InPeriod(d, y, m) ==
    /\ DateLE([year |-> y, month |-> m, day |-> 1], d)
    /\ DateLE(d, [year |-> y, month |-> m, day |-> DaysInMonth(y, m)])

\* mutant: the $match without its user field
BudgetExpenseMatchAnyUser(e, u, b) ==
    /\ e.category = b.category
    /\ InPeriod(e.date, b.year, b.month)

\* the $match of the per-budget aggregate
BudgetExpenseMatch(e, u, b) ==
    /\ e.user = u
    /\ e.category = b.category
    /\ InPeriod(e.date, b.year, b.month)

\* budget.amount > 0 ? (totalSpent / budget.amount) * 100 : 0, as a rational
PercentageUsed(totalSpent, amount) ==
    IF amount > 0 THEN [n |-> totalSpent * 100, d |-> amount] ELSE [n |-> 0, d |-> 1]

\* p >= k for a rational p with positive denominator
RatGE(p, k) == p.n >= k * p.d

\* mutant: Math.floor in place of Math.round
TruncateTwoDecimals(p) == (100 * p.n) \div p.d

\* Math.round(p * 100) / 100, in hundredths: floor(p * 100 + 1/2)
RoundTwoDecimals(p) == (200 * p.n + p.d) \div (2 * p.d)

\* mutant: the tiers compared with > in place of >=
BudgetStatusStrict(p) ==
    IF p.n > 100 * p.d THEN "exceeded"
    ELSE IF p.n > 90 * p.d THEN "warning"
    ELSE IF p.n > 75 * p.d THEN "caution"
    ELSE "within_budget"

\* getBudgets: the status tier
BudgetStatus(p) ==
    IF RatGE(p, 100) THEN "exceeded"
    ELSE IF RatGE(p, 90) THEN "warning"
    ELSE IF RatGE(p, 75) THEN "caution"
    ELSE "within_budget"

\* getBudgets: isOverBudget
IsOverBudget(totalSpent, amount) == totalSpent > amount

\* getBudgets: the comparison of one budget b of user u
BudgetComparison(b, es, u, now) ==
    LET matched == {e \in es : BudgetExpenseMatch(e, u, b)}
        totalSpent == SumAmounts(matched)
        percentageUsed == PercentageUsed(totalSpent, b.amount)
    IN  [budget |-> b,
         totalSpent |-> totalSpent,
         expenseCount |-> Cardinality(matched),
         remainingBudget |-> b.amount - totalSpent,
         percentageUsed |-> RoundTwoDecimals(percentageUsed),
         status |-> BudgetStatus(percentageUsed),
         isOverBudget |-> IsOverBudget(totalSpent, b.amount),
         daysInPeriod |-> DaysInMonth(b.year, b.month),
         daysRemaining |-> IF DaysInMonth(b.year, b.month) - now.day > 0
                           THEN DaysInMonth(b.year, b.month) - now.day ELSE 0]

(***************************************************************************)
(* getBudgets                                                              *)
(***************************************************************************)
\* the categories in ascending string order, as sort({ category: 1 }) orders them
CategoryOrder ==
    <<"dining", "education", "entertainment", "groceries", "healthcare", "housing",
      "insurance", "other", "savings", "shopping", "transportation", "travel",
      "utilities">>

CategoryIndex(c) == CHOOSE i \in 1 .. Len(CategoryOrder) : CategoryOrder[i] = c

\* sort({ year: -1, month: -1, category: 1 })
BudgetBefore(a, b) ==
    \/ a.year > b.year
    \/ a.year = b.year /\ a.month > b.month
    \/ a.year = b.year /\ a.month = b.month
          /\ CategoryIndex(a.category) < CategoryIndex(b.category)

RECURSIVE SortBudgets(_)
SortBudgets(S) ==
    IF S = {} THEN <<>>
    ELSE LET first == CHOOSE x \in S : \A y \in S \ {x} : BudgetBefore(x, y)
         IN  <<first>> \o SortBudgets(S \ {first})

\* the filter getBudgets builds from req.query
BudgetFilterMatch(b, u, q) ==
    /\ b.user = u
    /\ TruthyDigits(q.month) => b.month = ParseInt(q.month)
    /\ TruthyDigits(q.year) => b.year = ParseInt(q.year)
    /\ (TruthyString(q.category) /\ q.category /= "all")
          => b.category = ToLowerCase(q.category)
    /\ ~TruthyString(q.includeInactive) => b.isActive

RECURSIVE SumTotalSpent(_)
\* reduce((sum, comp) => sum + comp.spending.totalSpent, 0)
SumTotalSpent(cs) ==
    IF cs = <<>> THEN 0 ELSE Head(cs).totalSpent + SumTotalSpent(Tail(cs))

\* filter(comp => comp.spending.isOverBudget).length
CountExceeded(cs) == Cardinality({i \in 1 .. Len(cs) : cs[i].isOverBudget})

\* filter(comp => comp.spending.status === 'warning').length
CountInWarning(cs) == Cardinality({i \in 1 .. Len(cs) : cs[i].status = "warning"})

\* the summary of getBudgets
BudgetsSummary(bs, cs) ==
    LET totalBudgetAmount == SumAmounts(bs)
        totalSpent == SumTotalSpent(cs)
    IN  [totalBudgets |-> Cardinality(bs),
         totalBudgetAmount |-> totalBudgetAmount,
         totalSpent |-> totalSpent,
         budgetsExceeded |-> CountExceeded(cs),
         budgetsInWarning |-> CountInWarning(cs),
         overallPercentageUsed |->
             IF totalBudgetAmount > 0
             THEN RoundTwoDecimals([n |-> totalSpent * 100, d |-> totalBudgetAmount])
             ELSE 0]

\* the response of getBudgets for user u and query q
GetBudgetsResponse(bs, es, u, q, now) ==
    LET found == {b \in bs : BudgetFilterMatch(b, u, q)}
        sorted == SortBudgets(found)
        comparisons == [i \in 1 .. Len(sorted) |-> BudgetComparison(sorted[i], es, u, now)]
    IN  [op |-> "getBudgets", user |-> u, success |-> TRUE, status |-> 200, message |-> "",
         budgets |-> comparisons,
         summary |-> BudgetsSummary(found, comparisons),
         filters |-> q]

getBudgets(u, q) ==
    /\ resp' = GetBudgetsResponse(budgets, expenses, u, q, today)
    /\ UNCHANGED <<budgets, expenses, nextBudgetId, nextExpenseId, reqs, today, expensesPage>>

(***************************************************************************)
(* getBudgetById                                                           *)
(***************************************************************************)
GetBudgetByIdResponse(bs, es, u, id) ==
    IF ~IdIsValid(id)
    THEN [op |-> "getBudgetById", user |-> u, success |-> FALSE, status |-> 400, message |-> "Invalid budget ID"]
    ELSE IF ~(\E b \in bs : b.id = id /\ b.user = u)
    THEN [op |-> "getBudgetById", user |-> u, success |-> FALSE, status |-> 404, message |-> "Budget not found"]
    ELSE LET budget == BudgetById(bs, id)
             found == {e \in es : BudgetExpenseMatch(e, u, budget)}
             totalSpent == SumAmounts(found)
             percentageUsed == PercentageUsed(totalSpent, budget.amount)
         IN  [op |-> "getBudgetById", user |-> u, success |-> TRUE, status |-> 200, message |-> "",
              budget |-> budget,
              expenses |-> found,
              totalSpent |-> totalSpent,
              remainingBudget |-> budget.amount - totalSpent,
              percentageUsed |-> RoundTwoDecimals(percentageUsed),
              isOverBudget |-> IsOverBudget(totalSpent, budget.amount),
              expenseCount |-> Cardinality(found)]

getBudgetById(u, id) ==
    /\ resp' = GetBudgetByIdResponse(budgets, expenses, u, id)
    /\ UNCHANGED <<budgets, expenses, nextBudgetId, nextExpenseId, reqs, today, expensesPage>>

(***************************************************************************)
(* getBudgetDashboard                                                      *)
(***************************************************************************)
\* mutant: the dashboard $match without its user field
DashboardExpenseMatchAnyUser(e, u, y, m) == InPeriod(e.date, y, m)

\* the $match of the dashboard aggregate
DashboardExpenseMatch(e, u, y, m) == e.user = u /\ InPeriod(e.date, y, m)

\* expenseMap[category] || { totalSpent: 0, expenseCount: 0 }
ExpenseMapEntry(es, u, y, m, cat) ==
    LET group == {e \in es : DashboardExpenseMatch(e, u, y, m) /\ e.category = cat}
    IN  [totalSpent |-> SumAmounts(group), expenseCount |-> Cardinality(group)]

\* getBudgetDashboard: the visual indicator status
DashboardStatus(p) ==
    IF RatGE(p, 100) THEN "danger"
    ELSE IF RatGE(p, 90) THEN "warning"
    ELSE IF RatGE(p, 75) THEN "caution"
    ELSE "success"

AlertLevel(status) ==
    CASE status = "danger" -> "high"
      [] status = "warning" -> "medium"
      [] status = "caution" -> "low"
      [] OTHER -> "none"

StatusColor(status) ==
    IF status = "success" THEN "#10B981"
    ELSE IF status = "caution" THEN "#F59E0B"
    ELSE IF status = "warning" THEN "#EF4444"
    ELSE "#DC2626"

\* Math.min(percentageUsed, 100), as a rational
ProgressBarWidth(p) == IF RatGE(p, 100) THEN [n |-> 100, d |-> 1] ELSE p

DashboardItem(b, es, u, y, m) ==
    LET expenseData == ExpenseMapEntry(es, u, y, m, b.category)
        totalSpent == expenseData.totalSpent
        percentageUsed == PercentageUsed(totalSpent, b.amount)
        status == DashboardStatus(percentageUsed)
    IN  [budget |-> b,
         totalSpent |-> totalSpent,
         remainingBudget |-> b.amount - totalSpent,
         percentageUsed |-> RoundTwoDecimals(percentageUsed),
         expenseCount |-> expenseData.expenseCount,
         status |-> status,
         alertLevel |-> AlertLevel(status),
         progressBarWidth |-> ProgressBarWidth(percentageUsed),
         color |-> StatusColor(status)]

RECURSIVE SeqById(_)
\* the documents of a find() without sort, in insertion (_id) order
SeqById(S) ==
    IF S = {} THEN <<>>
    ELSE LET first == CHOOSE x \in S : \A y \in S : x.id <= y.id
         IN  <<first>> \o SeqById(S \ {first})

CountStatus(items, status) ==
    Cardinality({i \in 1 .. Len(items) : items[i].status = status})

GetBudgetDashboardResponse(bs, es, u, q, now) ==
    LET targetMonth == IF TruthyDigits(q.month) THEN ParseInt(q.month) ELSE now.month
        targetYear == IF TruthyDigits(q.year) THEN ParseInt(q.year) ELSE now.year
        found == {b \in bs : /\ b.user = u
                             /\ b.month = targetMonth
                             /\ b.year = targetYear
                             /\ b.isActive}
        list == SeqById(found)
        dashboardData ==
            [i \in 1 .. Len(list) |-> DashboardItem(list[i], es, u, targetYear, targetMonth)]
        totalBudgetAmount == SumAmounts(found)
        totalSpent == SumTotalSpent(dashboardData)
    IN  [op |-> "getBudgetDashboard", user |-> u, success |-> TRUE, status |-> 200, message |-> "",
         budgets |-> dashboardData,
         period |-> [month |-> targetMonth, year |-> targetYear],
         summary |->
             [totalBudgets |-> Cardinality(found),
              totalBudgetAmount |-> totalBudgetAmount,
              totalSpent |-> totalSpent,
              totalRemaining |-> totalBudgetAmount - totalSpent,
              overallPercentage |->
                  RoundTwoDecimals(IF totalBudgetAmount > 0
                                   THEN [n |-> totalSpent * 100, d |-> totalBudgetAmount]
                                   ELSE [n |-> 0, d |-> 1]),
              budgetsExceeded |-> CountStatus(dashboardData, "danger"),
              budgetsInWarning |-> CountStatus(dashboardData, "warning")]]

getBudgetDashboard(u, q) ==
    /\ resp' = GetBudgetDashboardResponse(budgets, expenses, u, q, today)
    /\ UNCHANGED <<budgets, expenses, nextBudgetId, nextExpenseId, reqs, today, expensesPage>>

(***************************************************************************)
(* SpecCompare: budgets and expenses are written, then compared            *)
(***************************************************************************)
May2024(d) == [year |-> 2024, month |-> 5, day |-> d]

\* the users and request bodies POST /api/budgets is driven with
CompareBudgetRequests ==
    {[user |-> "u1", category |-> "dining", amount |-> <<3, 0>>, month |-> <<5>>, year |-> Y2024],
     [user |-> "u1", category |-> "Dining", amount |-> <<8, 0>>, month |-> <<0, 5>>, year |-> Y2024],
     [user |-> "u1", category |-> "dining", amount |-> <<1, 0, 0>>, month |-> <<5>>, year |-> Y2024],
     [user |-> "u1", category |-> "groceries", amount |-> <<8, 0>>, month |-> <<5>>, year |-> Y2024],
     [user |-> "u2", category |-> "dining", amount |-> <<8, 0>>, month |-> <<5>>, year |-> Y2024]}

\* the users and request bodies POST /api/expenses is driven with, in the order
\* the clients send them; a request may be sent several times or not at all
CompareExpenseRequests ==
    <<[user |-> "u1", body |-> [description |-> "lunch", amount |-> 20,
                                category |-> "dining", date |-> May2024(3)]],
      [user |-> "u1", body |-> [description |-> "dinner", amount |-> 30,
                                category |-> "Dining", date |-> May2024(31)]],
      [user |-> "u1", body |-> [description |-> "banquet", amount |-> 50,
                                category |-> "dining", date |-> May2024(1)]],
      [user |-> "u1", body |-> [description |-> "market", amount |-> 30,
                                category |-> "groceries", date |-> May2024(3)]],
      [user |-> "u1", body |-> [description |-> "brunch", amount |-> 30,
                                category |-> "dining",
                                date |-> [year |-> 2024, month |-> 4, day |-> 30]]],
      [user |-> "u2", body |-> [description |-> "supper", amount |-> 30,
                                category |-> "dining", date |-> May2024(3)]]>>

\* no request later in the sending order than request i has been stored
NoneSentAfter(es, i) ==
    \A e \in es : \E j \in 1 .. i : CompareExpenseRequests[j].body.description = e.description

\* the query strings GET /api/budgets is driven with
BudgetQueries ==
    {[month |-> <<>>, year |-> <<>>, category |-> "", includeInactive |-> ""],
     [month |-> <<5>>, year |-> Y2024, category |-> "Dining", includeInactive |-> ""],
     [month |-> <<>>, year |-> <<>>, category |-> "", includeInactive |-> "false"],
     [month |-> <<>>, year |-> <<>>, category |-> "", includeInactive |-> "true"]}

\* the query strings GET /api/budgets/dashboard is driven with
DashboardQueries ==
    {[month |-> <<>>, year |-> <<>>],
     [month |-> <<5>>, year |-> Y2024]}

\* the client sends request i of the sending order
SendCompareExpense(i) ==
    /\ NoneSentAfter(expenses, i)
    /\ addExpense(CompareExpenseRequests[i].user, CompareExpenseRequests[i].body)

InitCompare ==
    /\ budgets = {}
    /\ expenses = {}
    /\ nextBudgetId = 1
    /\ nextExpenseId = 1
    /\ reqs = [r \in Slots |-> IdleReq]
    /\ resp = NoResp
    /\ today = [year |-> 2024, month |-> 6, day |-> 15]
    /\ expensesPage = Unmounted

NextCompare ==
    \/ \E b \in CompareBudgetRequests :
          createOrUpdateBudget(b.user, b.category, b.amount, b.month, b.year)
    \/ \E i \in 1 .. Len(CompareExpenseRequests) : SendCompareExpense(i)
    \/ \E u \in Users, q \in BudgetQueries : getBudgets(u, q)
    \/ \E u \in Users, id \in 1 .. MaxBudgetId : getBudgetById(u, id)
    \/ \E u \in Users, q \in DashboardQueries : getBudgetDashboard(u, q)

SpecCompare == InitCompare /\ [][NextCompare]_vars

(***************************************************************************)
(* Claims on the budget comparison                                         *)
(***************************************************************************)
\* the comparisons the last response carries: the items of getBudgets and
\* getBudgetDashboard, and the one of getBudgetById
RespItems ==
    IF resp.op \in {"getBudgets", "getBudgetDashboard"}
    THEN {resp.budgets[i] : i \in 1 .. Len(resp.budgets)}
    ELSE IF resp.op = "getBudgetById" /\ resp.status = 200
    THEN {[budget |-> resp.budget, totalSpent |-> resp.totalSpent,
           remainingBudget |-> resp.remainingBudget,
           percentageUsed |-> resp.percentageUsed]}
    ELSE {}

\* the items of the last response that carry a status
RespStatusItems ==
    IF resp.op \in {"getBudgets", "getBudgetDashboard"}
    THEN {resp.budgets[i] : i \in 1 .. Len(resp.budgets)}
    ELSE {}

\* the tier the claim gives a budget of amount a with s spent, in the words of
\* getBudgets: percentageUsed = s / a * 100 compared without rounding
TierOf(s, a) ==
    IF 100 * s >= 100 * a THEN "exceeded"
    ELSE IF 100 * s >= 90 * a /\ 100 * s < 100 * a THEN "warning"
    ELSE IF 100 * s >= 75 * a /\ 100 * s < 90 * a THEN "caution"
    ELSE "within_budget"

DashboardWord(tier) ==
    CASE tier = "exceeded" -> "danger"
      [] tier = "within_budget" -> "success"
      [] OTHER -> tier

\* C4: in every comparison of getBudgets and getBudgetDashboard the status is
\* the tier of percentageUsed = totalSpent / amount * 100 with boundaries
\* closed below: >= 100 exceeded (danger), [90, 100) warning, [75, 90)
\* caution, < 75 within_budget (success).
C4_StatusTiers ==
    \A it \in RespStatusItems :
        LET tier == TierOf(it.totalSpent, it.budget.amount)
        IN  it.status = IF resp.op = "getBudgets" THEN tier ELSE DashboardWord(tier)

\* a getBudgets response with a budget at exactly 100 % (exceeded), and another
\* budget below 75 %
C4_Witness ==
    /\ resp.op = "getBudgets"
    /\ \E it \in RespStatusItems :
          it.totalSpent = it.budget.amount /\ it.status = "exceeded"
    /\ \E it \in RespStatusItems :
          it.totalSpent > 0 /\ it.status = "within_budget"

\* C5: in every comparison of getBudgets, getBudgetById and
\* getBudgetDashboard the reported percentageUsed r (in hundredths) is
\* totalSpent / amount * 100 rounded to two decimals, halves up:
\* r - 1/2 <= 10000 * totalSpent / amount < r + 1/2; and 0 when amount is 0.
C5_PercentageRounded ==
    \A it \in RespItems :
        LET a == it.budget.amount
            t == it.totalSpent
            r == it.percentageUsed
        IN  IF a = 0 THEN r = 0
            ELSE (2 * r - 1) * a <= 20000 * t /\ 20000 * t < (2 * r + 1) * a

\* getBudgetById has reported 20 of 30 as 66.67 %
C5_Witness ==
    /\ resp.op = "getBudgetById"
    /\ resp.status = 200
    /\ resp.totalSpent = 20
    /\ resp.budget.amount = 30
    /\ resp.percentageUsed = 6667

\* the expenses of store es that belong to the owner of budget b, have its
\* category and are dated in its month
ExpensesOfBudget(es, b) ==
    {e \in es : /\ e.user = b.user
                /\ e.category = b.category
                /\ e.date.year = b.year
                /\ e.date.month = b.month}

\* C6: in every comparison totalSpent is the sum of the amounts of exactly
\* the requesting user's expenses of the budget's category dated in the
\* budget's month, and remaining is the budget amount minus totalSpent; dining
\* expenses of 20, 30 and 50 in May 2024 against a dining budget of 80 give
\* totalSpent 100, remaining -20, percentageUsed 125.00 and status exceeded.
C6_TotalSpentAndRemaining ==
    \A it \in RespItems :
        LET own == ExpensesOfBudget(expenses, it.budget)
        IN  /\ it.budget.user = resp.user
            /\ it.totalSpent = SumAmounts(own)
            /\ it.remainingBudget = it.budget.amount - it.totalSpent
            /\ (/\ it.budget.amount = 80
                 /\ Cardinality(own) = 3
                 /\ {e.amount : e \in own} = {20, 30, 50})
               => /\ it.totalSpent = 100
                  /\ it.remainingBudget = -20
                  /\ it.percentageUsed = 12500
                  /\ resp.op = "getBudgets" => it.status = "exceeded"

\* the example: getBudgets over dining expenses of 20, 30 and 50 in May 2024 and
\* a dining budget of 80 for May 2024
C6_Witness ==
    /\ resp.op = "getBudgets"
    /\ \E it \in RespItems :
          /\ it.budget.category = "dining" /\ it.budget.amount = 80
          /\ it.budget.month = 5 /\ it.budget.year = 2024
          /\ {e.amount : e \in ExpensesOfBudget(expenses, it.budget)} = {20, 30, 50}
          /\ it.totalSpent = 100 /\ it.remainingBudget = -20
          /\ it.percentageUsed = 12500 /\ it.status = "exceeded"

\* C7: in the summary of getBudgets totalBudgetAmount is the sum of the
\* included budgets' amounts, totalSpent the sum of their totalSpent,
\* budgetsExceeded the number of included budgets whose status is exceeded and
\* budgetsInWarning the number whose status is warning.
C7_SummaryCounts ==
    resp.op = "getBudgets" =>
        /\ resp.summary.totalBudgetAmount = SumAmounts({it.budget : it \in RespItems})
        /\ resp.summary.totalSpent = SumTotalSpent(resp.budgets)
        /\ resp.summary.budgetsExceeded =
               Cardinality({it \in RespItems : it.status = "exceeded"})
        /\ resp.summary.budgetsInWarning =
               Cardinality({it \in RespItems : it.status = "warning"})

\* the four figures of a comparison
Figures(it) ==
    [totalSpent |-> it.totalSpent, remaining |-> it.remainingBudget,
     percentageUsed |-> it.percentageUsed,
     status |-> IF resp.op = "getBudgetById" THEN "" ELSE it.status]

AllBudgetsQuery == [month |-> <<>>, year |-> <<>>, category |-> "", includeInactive |-> ""]

\* the comparison of budget b by the handler that gave the last response, in the
\* state that holds nothing but b and the expenses es
ComparisonIn(b, es) ==
    IF resp.op = "getBudgets"
    THEN GetBudgetsResponse({b}, es, b.user, AllBudgetsQuery, today).budgets[1]
    ELSE IF resp.op = "getBudgetDashboard"
    THEN GetBudgetDashboardResponse({b}, es, b.user,
                                    [month |-> <<>>, year |-> <<>>],
                                    [year |-> b.year, month |-> b.month, day |-> 1]).budgets[1]
    ELSE GetBudgetByIdResponse({b}, es, b.user, b.id)

\* C8: the comparison of a budget is the one computed in the state that holds
\* only that budget and the owner's expenses of its category and month; so any
\* two states that agree on these give the same totalSpent, remaining,
\* percentageUsed and status, whatever other budgets, expenses of other
\* categories or months, and records of other users they hold.
C8_ComparisonIndependent ==
    \A it \in RespItems :
        Figures(it) = Figures(ComparisonIn(it.budget, ExpensesOfBudget(expenses, it.budget)))

\* a dashboard comparison with spending, computed while the store also holds
\* another budget, an expense of another user and one of another category or month
C8_Witness ==
    /\ resp.op = "getBudgetDashboard"
    /\ \E it \in RespItems :
          /\ it.totalSpent > 0
          /\ \E b \in budgets : b /= it.budget
          /\ \E e \in expenses : e.user /= it.budget.user
          /\ \E e \in expenses :
                e.user = it.budget.user /\ e \notin ExpensesOfBudget(expenses, it.budget)

(***************************************************************************)
(* getMonthlyExpenseSummary and generateSpendingInsights                   *)
(* (the weekly and daily spending patterns of the response are left out)   *)
(***************************************************************************)
RECURSIVE Orderings(_)
Orderings(S) ==
    IF S = {} THEN {<<>>}
    ELSE UNION {{<<x>> \o t : t \in Orderings(S \ {x})} : x \in S}

\* the orders a sort may leave S in: no element stands after one it must precede;
\* elements the sort key does not separate come in any order
\* (before is the set of pairs <<a, b>> where a must precede b)
SortedSeqs(S, before) ==
    {t \in Orderings(S) :
        \A i \in 1 .. Len(t) : \A j \in 1 .. Len(t) :
            i < j => <<t[j], t[i]>> \notin before}

\* mutant: the find without its user field
MonthExpensesAnyUser(es, u, y, m) == {e \in es : InPeriod(e.date, y, m)}

\* find({ user, date: { $gte: startDate, $lte: endDate } })
MonthExpenses(es, u, y, m) == {e \in es : e.user = u /\ InPeriod(e.date, y, m)}

\* $group: { _id: '$category', totalAmount, count }
CategoryGroups(es, u, y, m) ==
    {[category |-> c,
      totalAmount |-> SumAmounts({e \in MonthExpenses(es, u, y, m) : e.category = c}),
      count |-> Cardinality({e \in MonthExpenses(es, u, y, m) : e.category = c})] :
        c \in {e.category : e \in MonthExpenses(es, u, y, m)}}

\* { $sort: { totalAmount: -1 } }
HigherTotal(a, b) == a.totalAmount > b.totalAmount

CategoryBreakdowns(es, u, y, m) ==
    LET G == CategoryGroups(es, u, y, m)
    IN  SortedSeqs(G, {p \in G \X G : HigherTotal(p[1], p[2])})

\* find(...).sort({ date: -1 }) and then the stable sort((a, b) => b.amount - a.amount)
HigherAmountThenLater(a, b) ==
    \/ a.amount > b.amount
    \/ a.amount = b.amount /\ a.date /= b.date /\ DateLE(b.date, a.date)

FirstFive(t) == SubSeq(t, 1, IF Len(t) < 5 THEN Len(t) ELSE 5)

\* expenses.sort(...).slice(0, 5)
TopExpenses(es, u, y, m) ==
    LET M == MonthExpenses(es, u, y, m)
    IN  {FirstFive(t) :
            t \in SortedSeqs(M, {p \in M \X M : HigherAmountThenLater(p[1], p[2])})}

PrevMonth(m) == IF m = 1 THEN 12 ELSE m - 1

\* mutant: the previous month looked for in the year asked for
PrevYearSameYear(y, m) == y

PrevYear(y, m) == IF m = 1 THEN y - 1 ELSE y

\* mutant: the average taken over the whole month, current or not
AveragePerDayWholeMonth(totalSpending, isCurrentMonth, currentDay, daysInMonth) ==
    [n |-> totalSpending, d |-> daysInMonth]

\* isCurrentMonth ? totalSpending / currentDay : totalSpending / daysInMonth
AveragePerDay(totalSpending, isCurrentMonth, currentDay, daysInMonth) ==
    IF isCurrentMonth
    THEN [n |-> totalSpending, d |-> currentDay]
    ELSE [n |-> totalSpending, d |-> daysInMonth]

\* prevMonthTotal > 0 ? ((totalSpending - prevMonthTotal) / prevMonthTotal) * 100 : 0
MonthOverMonthChange(totalSpending, prevMonthTotal) ==
    IF prevMonthTotal > 0
    THEN [n |-> (totalSpending - prevMonthTotal) * 100, d |-> prevMonthTotal]
    ELSE [n |-> 0, d |-> 1]

Abs(x) == IF x < 0 THEN -x ELSE x

\* Math.abs(p) > k for a rational p with positive denominator
RatAbsGT(p, k) == Abs(p.n) > k * p.d

\* (x / total) * 100 > k in JavaScript numbers: x / 0 is Infinity for x > 0
\* and NaN, which compares false, for x = 0
PercentGT(x, total, k) == IF total = 0 THEN x > 0 ELSE 100 * x > k * total

\* mutant: the trend compared with >= 10 in place of > 10
TrendInsightFromTen(data) ==
    IF ~(10 * data.monthOverMonthChange.d > Abs(data.monthOverMonthChange.n))
    THEN <<[type |-> "trend",
            level |-> IF RatAbsGT(data.monthOverMonthChange, 25) THEN "warning" ELSE "info",
            direction |-> IF data.monthOverMonthChange.n > 0 THEN "increased"
                          ELSE "decreased"]>>
    ELSE <<>>

\* the monthly spending trend insight
TrendInsight(data) ==
    IF RatAbsGT(data.monthOverMonthChange, 10)
    THEN <<[type |-> "trend",
            level |-> IF RatAbsGT(data.monthOverMonthChange, 25) THEN "warning" ELSE "info",
            direction |-> IF data.monthOverMonthChange.n > 0 THEN "increased"
                          ELSE "decreased"]>>
    ELSE <<>>

\* mutant: the category insight at warning from a share of 40%
CategoryInsightFromForty(data) ==
    IF Len(data.categoryBreakdown) > 0
    THEN LET topCategory == data.categoryBreakdown[1]
         IN  <<[type |-> "category",
                level |-> IF 100 * topCategory.totalAmount >= 40 * data.totalSpending
                          THEN "warning" ELSE "info",
                category |-> topCategory.category,
                amount |-> topCategory.totalAmount]>>
    ELSE <<>>

\* the top category insight
CategoryInsight(data) ==
    IF Len(data.categoryBreakdown) > 0
    THEN LET topCategory == data.categoryBreakdown[1]
         IN  <<[type |-> "category",
                level |-> IF PercentGT(topCategory.totalAmount, data.totalSpending, 40)
                          THEN "warning" ELSE "info",
                category |-> topCategory.category,
                amount |-> topCategory.totalAmount]>>
    ELSE <<>>

\* mutant: the projection over the days tracked so far
ProjectionInsightDaysTracked(data) ==
    IF data.isCurrentMonth
    THEN <<[type |-> "projection", level |-> "info",
            projectedMonthly |-> [n |-> data.averagePerDay.n * data.currentDay,
                                  d |-> data.averagePerDay.d]]>>
    ELSE <<>>

\* the daily average insight: projectedMonthly = averagePerDay * daysInMonth
ProjectionInsight(data) ==
    IF data.isCurrentMonth
    THEN <<[type |-> "projection", level |-> "info",
            projectedMonthly |-> [n |-> data.averagePerDay.n * data.daysInMonth,
                                  d |-> data.averagePerDay.d]]>>
    ELSE <<>>

\* mutant: the high expense insight emitted from a share of 15%
ExpenseInsightFromFifteen(data) ==
    IF Len(data.topExpenses) > 0
         /\ 100 * data.topExpenses[1].amount >= 15 * data.totalSpending
    THEN <<[type |-> "expense",
            level |-> IF PercentGT(data.topExpenses[1].amount, data.totalSpending, 25)
                      THEN "warning" ELSE "caution",
            expense |-> data.topExpenses[1].id,
            amount |-> data.topExpenses[1].amount]>>
    ELSE <<>>

\* the high expense insight
ExpenseInsight(data) ==
    IF Len(data.topExpenses) > 0
         /\ PercentGT(data.topExpenses[1].amount, data.totalSpending, 15)
    THEN <<[type |-> "expense",
            level |-> IF PercentGT(data.topExpenses[1].amount, data.totalSpending, 25)
                      THEN "warning" ELSE "caution",
            expense |-> data.topExpenses[1].id,
            amount |-> data.topExpenses[1].amount]>>
    ELSE <<>>

\* mutant: the spending distribution insight emitted from a share of 80%
DistributionInsightFromEighty(data) ==
    IF Len(data.categoryBreakdown) >= 3
         /\ 100 * (data.categoryBreakdown[1].totalAmount
                     + data.categoryBreakdown[2].totalAmount
                     + data.categoryBreakdown[3].totalAmount) >= 80 * data.totalSpending
    THEN <<[type |-> "distribution", level |-> "info"]>>
    ELSE <<>>

\* the spending distribution insight
DistributionInsight(data) ==
    IF Len(data.categoryBreakdown) >= 3
         /\ PercentGT(data.categoryBreakdown[1].totalAmount
                        + data.categoryBreakdown[2].totalAmount
                        + data.categoryBreakdown[3].totalAmount,
                      data.totalSpending, 80)
    THEN <<[type |-> "distribution", level |-> "info"]>>
    ELSE <<>>

\* mutant: the projection rule evaluated before the category rule
generateSpendingInsightsProjectionFirst(data) ==
    TrendInsight(data) \o ProjectionInsight(data) \o CategoryInsight(data)
        \o ExpenseInsight(data) \o DistributionInsight(data)

generateSpendingInsights(data) ==
    TrendInsight(data) \o CategoryInsight(data) \o ProjectionInsight(data)
        \o ExpenseInsight(data) \o DistributionInsight(data)

\* Math.round((x / total) * 10000) / 100 as res.json writes it: hundredths of
\* a percent, or NonFinite for the Infinity (x / 0) and NaN (0 / 0) that JSON
\* has no number for and writes as null; no finite percentage is negative
NonFinite == -1

JsonPercentage(x, total) ==
    IF total = 0 THEN NonFinite ELSE RoundTwoDecimals([n |-> x * 100, d |-> total])

\* the response of getMonthlyExpenseSummary for user u and query q, given the
\* result found of the find, the result cb of the category aggregate, the
\* order top the top expenses came in and the total of the previous month
MonthlySummaryOf(u, q, now, found, cb, top, prevMonthTotal) ==
    LET targetMonth == IF TruthyDigits(q.month) THEN ParseInt(q.month) ELSE now.month
        targetYear == IF TruthyDigits(q.year) THEN ParseInt(q.year) ELSE now.year
        daysInMonth == DaysInMonth(targetYear, targetMonth)
        currentDay == now.day
        isCurrentMonth == targetMonth = now.month /\ targetYear = now.year
        totalExpenses == Cardinality(found)
        totalSpending == SumAmounts(found)
        averagePerExpense == IF totalExpenses > 0
                             THEN [n |-> totalSpending, d |-> totalExpenses]
                             ELSE [n |-> 0, d |-> 1]
        averagePerDay == AveragePerDay(totalSpending, isCurrentMonth, currentDay, daysInMonth)
        prevMonth == PrevMonth(targetMonth)
        prevYear == PrevYear(targetYear, targetMonth)
        monthOverMonthChange == MonthOverMonthChange(totalSpending, prevMonthTotal)
        insights == generateSpendingInsights(
                        [totalSpending |-> totalSpending,
                         averagePerDay |-> averagePerDay,
                         categoryBreakdown |-> cb,
                         monthOverMonthChange |-> monthOverMonthChange,
                         daysInMonth |-> daysInMonth,
                         isCurrentMonth |-> isCurrentMonth,
                         currentDay |-> currentDay,
                         topExpenses |-> top])
    IN  [op |-> "getMonthlyExpenseSummary", user |-> u, success |-> TRUE, status |-> 200, message |-> "",
         month |-> targetMonth,
         year |-> targetYear,
         totalSpending |-> totalSpending,
         totalExpenses |-> totalExpenses,
         averagePerExpense |-> averagePerExpense,
         averagePerDay |-> averagePerDay,
         daysInMonth |-> daysInMonth,
         daysTracked |-> IF isCurrentMonth THEN currentDay ELSE daysInMonth,
         previousMonth |-> [month |-> prevMonth, year |-> prevYear,
                            totalSpending |-> prevMonthTotal],
         monthOverMonthChange |-> RoundTwoDecimals(monthOverMonthChange),
         changeType |-> IF monthOverMonthChange.n > 0 THEN "increase"
                        ELSE IF monthOverMonthChange.n < 0 THEN "decrease"
                        ELSE "no_change",
         categoryBreakdown |->
             [i \in 1 .. Len(cb) |->
                 [category |-> cb[i].category,
                  totalAmount |-> cb[i].totalAmount,
                  count |-> cb[i].count,
                  percentage |-> JsonPercentage(cb[i].totalAmount, totalSpending)]],
         topExpenses |-> top,
         insights |-> insights]

\* the response when nothing is written between the handler's queries
MonthlySummaryResponse(es, u, q, now, cb, top) ==
    LET targetMonth == IF TruthyDigits(q.month) THEN ParseInt(q.month) ELSE now.month
        targetYear == IF TruthyDigits(q.year) THEN ParseInt(q.year) ELSE now.year
    IN  MonthlySummaryOf(u, q, now, MonthExpenses(es, u, targetYear, targetMonth), cb, top,
                         SumAmounts(MonthExpenses(es, u, PrevYear(targetYear, targetMonth),
                                                  PrevMonth(targetMonth))))

getMonthlyExpenseSummary(u, q) ==
    LET m == IF TruthyDigits(q.month) THEN ParseInt(q.month) ELSE today.month
        y == IF TruthyDigits(q.year) THEN ParseInt(q.year) ELSE today.year
    IN  /\ \E cb \in CategoryBreakdowns(expenses, u, y, m) :
              \E top \in TopExpenses(expenses, u, y, m) :
                  resp' = MonthlySummaryResponse(expenses, u, q, today, cb, top)
        /\ UNCHANGED <<budgets, expenses, nextBudgetId, nextExpenseId, reqs, today, expensesPage>>

(***************************************************************************)
(* SpecSummary: expenses are added, then summarised                        *)
(***************************************************************************)
\* the users and request bodies POST /api/expenses is driven with, in the order
\* the clients send them; a request may be sent several times or not at all
SummaryExpenseRequests ==
    <<[user |-> "u1", body |-> [description |-> "gift", amount |-> 30,
                                category |-> "shopping",
                                date |-> [year |-> 2023, month |-> 12, day |-> 24]]],
      [user |-> "u1", body |-> [description |-> "gym", amount |-> 20,
                                category |-> "healthcare",
                                date |-> [year |-> 2024, month |-> 1, day |-> 5]]],
      [user |-> "u1", body |-> [description |-> "rent", amount |-> 100,
                                category |-> "housing",
                                date |-> [year |-> 2024, month |-> 4, day |-> 10]]],
      [user |-> "u1", body |-> [description |-> "banquet", amount |-> 110,
                                category |-> "dining", date |-> May2024(3)]],
      [user |-> "u1", body |-> [description |-> "market", amount |-> 5,
                                category |-> "groceries", date |-> May2024(3)]],
      [user |-> "u1", body |-> [description |-> "train", amount |-> 15,
                                category |-> "travel", date |-> NoDate]],
      [user |-> "u2", body |-> [description |-> "supper", amount |-> 40,
                                category |-> "dining", date |-> May2024(7)]],
      [user |-> "u2", body |-> [description |-> "cinema", amount |-> 30,
                                category |-> "entertainment", date |-> May2024(8)]],
      [user |-> "u2", body |-> [description |-> "taxi", amount |-> 30,
                                category |-> "transportation", date |-> May2024(9)]]>>

SummaryNoneSentAfter(es, i) ==
    \A e \in es : \E j \in 1 .. i : SummaryExpenseRequests[j].body.description = e.description

\* the client sends request i of the sending order
SendSummaryExpense(i) ==
    /\ SummaryNoneSentAfter(expenses, i)
    /\ addExpense(SummaryExpenseRequests[i].user, SummaryExpenseRequests[i].body)

\* the query strings GET /api/expenses/summary/monthly is driven with
SummaryQueries ==
    {[month |-> <<>>, year |-> <<>>],
     [month |-> <<4>>, year |-> Y2024],
     [month |-> <<0, 6>>, year |-> Y2024],
     [month |-> <<1>>, year |-> Y2024]}

InitSummary ==
    /\ budgets = {}
    /\ expenses = {}
    /\ nextBudgetId = 1
    /\ nextExpenseId = 1
    /\ reqs = [r \in Slots |-> IdleReq]
    /\ resp = NoResp
    /\ today = Today0
    /\ expensesPage = Unmounted

NextSummary ==
    \/ \E i \in 1 .. Len(SummaryExpenseRequests) : SendSummaryExpense(i)
    \/ \E u \in Users, q \in SummaryQueries : getMonthlyExpenseSummary(u, q)

SpecSummary == InitSummary /\ [][NextSummary]_vars

(***************************************************************************)
(* Claims on the monthly summary and its insights                          *)
(***************************************************************************)
\* the expenses of user u dated in month m of year y
ExpensesOfMonth(es, u, y, m) ==
    {e \in es : e.user = u /\ e.date.year = y /\ e.date.month = m}

\* the last response is a monthly summary of a month without expenses of the user
EmptyMonthSummary ==
    /\ resp.op = "getMonthlyExpenseSummary"
    /\ ExpensesOfMonth(expenses, resp.user, resp.year, resp.month) = {}

ZeroSummary ==
    /\ resp.status = 200
    /\ resp.totalSpending = 0
    /\ resp.totalExpenses = 0
    /\ resp.averagePerDay.n = 0
    /\ resp.categoryBreakdown = <<>>

InsightTypes == [i \in 1 .. Len(resp.insights) |-> resp.insights[i].type]

\* C9 as stated: for every month in which the requesting user has no expenses,
\* the current month included, getMonthlyExpenseSummary answers successfully
\* with totalSpending 0, totalExpenses 0, averagePerDay 0, an empty
\* categoryBreakdown and an empty insights list.
C9_EmptyMonthNoInsights ==
    EmptyMonthSummary => ZeroSummary /\ resp.insights = <<>>

\* C9 (amended): for every month in which the requesting user has no expenses
\* getMonthlyExpenseSummary answers successfully with totalSpending 0,
\* totalExpenses 0, averagePerDay 0 and an empty categoryBreakdown; its
\* insights are a trend insight of level warning when the user has expenses
\* in the previous month, then a projection insight of 0 when the month is the
\* current month, and nothing else: the list is empty exactly when the month
\* is not the current one and the previous month has no expenses.
C9_EmptyMonthSummary ==
    EmptyMonthSummary =>
        LET py == IF resp.month = 1 THEN resp.year - 1 ELSE resp.year
            pm == IF resp.month = 1 THEN 12 ELSE resp.month - 1
            hadSpending == ExpensesOfMonth(expenses, resp.user, py, pm) /= {}
            isCurrent == resp.month = today.month /\ resp.year = today.year
        IN  /\ ZeroSummary
            /\ InsightTypes = (IF hadSpending THEN <<"trend">> ELSE <<>>)
                                 \o (IF isCurrent THEN <<"projection">> ELSE <<>>)
            /\ \A i \in 1 .. Len(resp.insights) :
                  /\ resp.insights[i].type = "trend" => resp.insights[i].level = "warning"
                  /\ resp.insights[i].type = "projection"
                        => resp.insights[i].projectedMonthly.n = 0

\* a summary of a month without expenses, not the current one and with nothing
\* in the month before, while the user has expenses in another month: no insights
C9_Witness ==
    /\ EmptyMonthSummary
    /\ resp.month = 4
    /\ resp.insights = <<>>
    /\ \E e \in expenses : e.user = resp.user

\* C10: a monthly summary carries a trend insight if and only if the absolute
\* value of monthOverMonthChange, (current - previous) / previous * 100 or 0
\* when previous is 0, is strictly greater than 10; its level is warning when
\* the absolute value is strictly greater than 25 and info otherwise
\* (previous 100, current 115: emitted with level info; exactly 10: nothing).
C10_TrendInsight ==
    resp.op = "getMonthlyExpenseSummary" =>
        LET prev == resp.previousMonth.totalSpending
            cur == resp.totalSpending
            n == IF prev > 0 THEN (cur - prev) * 100 ELSE 0
            d == IF prev > 0 THEN prev ELSE 1
            trends == {i \in 1 .. Len(resp.insights) : resp.insights[i].type = "trend"}
        IN  /\ trends /= {} <=> Abs(n) > 10 * d
            /\ \A i \in trends :
                  resp.insights[i].level = IF Abs(n) > 25 * d THEN "warning" ELSE "info"
            /\ (prev = 100 /\ cur = 115) =>
                  \E i \in trends : resp.insights[i].level = "info"
            /\ (prev = 100 /\ cur = 110) => trends = {}

\* the example: previous month 100, current month 115, a trend insight of level info
C10_Witness ==
    /\ resp.op = "getMonthlyExpenseSummary"
    /\ resp.previousMonth.totalSpending = 100
    /\ resp.totalSpending = 115
    /\ resp.insights[1].type = "trend"
    /\ resp.insights[1].level = "info"

\* the place of an insight type in the order the rules are evaluated in
InsightRank(type) ==
    CASE type = "trend" -> 1
      [] type = "category" -> 2
      [] type = "projection" -> 3
      [] type = "expense" -> 4
      [] type = "distribution" -> 5
      [] OTHER -> 0

\* C11: the insights of a monthly summary are a subsequence of (trend,
\* category, projection, expense, distribution): every entry is of one of the
\* five types and carries a level, the types come in that order and no type
\* comes twice; a later rule fires whether or not an earlier one did.
C11_InsightsOrder ==
    resp.op = "getMonthlyExpenseSummary" =>
        /\ \A i \in 1 .. Len(resp.insights) :
              /\ InsightRank(resp.insights[i].type) \in 1 .. 5
              /\ resp.insights[i].level \in {"info", "caution", "warning"}
        /\ \A i \in 1 .. Len(resp.insights) : \A j \in 1 .. Len(resp.insights) :
              i < j => InsightRank(resp.insights[i].type) < InsightRank(resp.insights[j].type)

\* a summary whose trend rule did not fire while the four later rules did
C11_Witness ==
    /\ resp.op = "getMonthlyExpenseSummary"
    /\ InsightTypes = <<"category", "projection", "expense", "distribution">>

\* C12: in a monthly summary averagePerDay is totalSpending divided by the
\* current day of the month when the month asked for is the current calendar
\* month, and totalSpending divided by the number of days of the month asked
\* for otherwise.
C12_AveragePerDay ==
    resp.op = "getMonthlyExpenseSummary" =>
        LET isCurrent == resp.month = today.month /\ resp.year = today.year
            days == IF isCurrent THEN today.day
                    ELSE IF resp.month = 2
                         THEN (IF resp.year % 4 = 0 THEN 29 ELSE 28)
                    ELSE IF resp.month \in {4, 6, 9, 11} THEN 30 ELSE 31
        IN  /\ resp.averagePerDay.d > 0
            /\ resp.averagePerDay.n * days = resp.totalSpending * resp.averagePerDay.d

\* April asked for on 20 May with 100 spent in April: 100 / 30
C12_Witness ==
    /\ resp.op = "getMonthlyExpenseSummary"
    /\ resp.month = 4
    /\ today.month = 5
    /\ resp.totalSpending = 100
    /\ resp.averagePerDay = [n |-> 100, d |-> 30]

(***************************************************************************)
(* getExpenses                                                             *)
(***************************************************************************)
\* the descriptions { $regex: search, $options: 'i' } matches
RegexMatch(description, search) ==
    CASE search = "DIN" -> description \in {"dinner"}
      [] search = "n" -> description \in {"lunch", "dinner", "banquet", "brunch"}
      [] OTHER -> description = search

\* mutant: the category of the query compared as it was given
ExpenseFilterMatchCaseSensitive(e, u, q) ==
    /\ e.user = u
    /\ (TruthyString(q.category) /\ q.category /= "all") => e.category = q.category
    /\ q.startDate /= NoDate => DateLE(q.startDate, e.date)
    /\ q.endDate /= NoDate => DateLE(e.date, q.endDate)
    /\ TruthyDigits(q.minAmount) => e.amount >= ParseFloat(q.minAmount)
    /\ TruthyDigits(q.maxAmount) => e.amount <= ParseFloat(q.maxAmount)
    /\ TruthyString(q.search) => RegexMatch(e.description, q.search)

\* the filter object getExpenses builds from the query string
ExpenseFilterMatch(e, u, q) ==
    /\ e.user = u
    /\ (TruthyString(q.category) /\ q.category /= "all")
          => e.category = ToLowerCase(q.category)
    /\ q.startDate /= NoDate => DateLE(q.startDate, e.date)
    /\ q.endDate /= NoDate => DateLE(e.date, q.endDate)
    /\ TruthyDigits(q.minAmount) => e.amount >= ParseFloat(q.minAmount)
    /\ TruthyDigits(q.maxAmount) => e.amount <= ParseFloat(q.maxAmount)
    /\ TruthyString(q.search) => RegexMatch(e.description, q.search)

\* a sorts strictly before b under sort[sortBy] = 1
FieldLess(a, b, sortBy) ==
    CASE sortBy = "date" -> a.date /= b.date /\ DateLE(a.date, b.date)
      [] sortBy = "amount" -> a.amount < b.amount
      [] OTHER -> FALSE

\* sortBy = 'date', sortOrder = 'desc' when the query leaves them out
QuerySortBy(q) == IF q.sortBy = "" THEN "date" ELSE q.sortBy
QuerySortOrder(q) == IF q.sortOrder = "" THEN "desc" ELSE q.sortOrder

\* sort[sortBy] = sortOrder === 'asc' ? 1 : -1
ExpenseBefore(a, b, q) ==
    IF QuerySortOrder(q) = "asc"
    THEN FieldLess(a, b, QuerySortBy(q))
    ELSE FieldLess(b, a, QuerySortBy(q))

\* page = 1, limit = 10 when the query leaves them out
QueryPage(q) == IF q.page = <<>> THEN 1 ELSE ParseInt(q.page)
QueryLimit(q) == IF q.limit = <<>> THEN 10 ELSE ParseInt(q.limit)

\* mutant: skip computed as page * limit
QuerySkipFromPage(q) == QueryPage(q) * QueryLimit(q)

\* skip = (parseInt(page) - 1) * parseInt(limit)
QuerySkip(q) == (QueryPage(q) - 1) * QueryLimit(q)

\* .skip(skip).limit(limit) of the sorted matches t
SkipLimit(t, skip, limit) ==
    IF skip >= Len(t) THEN <<>>
    ELSE SubSeq(t, skip + 1, IF skip + limit < Len(t) THEN skip + limit ELSE Len(t))

\* Math.ceil(total / limit)
CeilDiv(total, limit) == (total + limit - 1) \div limit

MaxAmount(S) == IF S = {} THEN 0 ELSE CHOOSE a \in {e.amount : e \in S} :
                                          \A e \in S : e.amount <= a
MinAmount(S) == IF S = {} THEN 0 ELSE CHOOSE a \in {e.amount : e \in S} :
                                          \A e \in S : e.amount >= a

\* the response of getExpenses for user u and query q given the page found,
\* the count total, the statistics summary and the category aggregate cb
GetExpensesOf(u, q, found, total, summary, cb) ==
    [op |-> "getExpenses", user |-> u, success |-> TRUE, status |-> 200, message |-> "",
         query |-> q,
         expenses |-> found,
         pagination |-> [currentPage |-> QueryPage(q),
                         totalPages |-> CeilDiv(total, QueryLimit(q)),
                         totalExpenses |-> total,
                         hasNext |-> QuerySkip(q) + Len(found) < total,
                         hasPrev |-> QueryPage(q) > 1,
                         limit |-> QueryLimit(q)],
         summary |-> summary,
         categoryBreakdown |-> cb]

\* $match: filter, $group: { _id: null, totalAmount, maxAmount, minAmount, count }
\* (avgAmount is left out), or the zero record the handler puts for no group
SummaryStats(es, u, q) ==
    LET M == {e \in es : ExpenseFilterMatch(e, u, q)}
    IN  [totalAmount |-> SumAmounts(M), maxAmount |-> MaxAmount(M),
         minAmount |-> MinAmount(M), count |-> Cardinality(M)]

\* the response when nothing is written between the handler's queries, given
\* the order sorted the find and the order cb the category aggregate came in
GetExpensesResponse(es, u, q, sorted, cb) ==
    GetExpensesOf(u, q, SkipLimit(sorted, QuerySkip(q), QueryLimit(q)),
                  Cardinality({e \in es : ExpenseFilterMatch(e, u, q)}),
                  SummaryStats(es, u, q), cb)

\* $match: filter, $group: { _id: '$category', totalAmount, count }
FilterCategoryGroups(es, u, q) ==
    LET M == {e \in es : ExpenseFilterMatch(e, u, q)}
    IN  {[category |-> c,
          totalAmount |-> SumAmounts({e \in M : e.category = c}),
          count |-> Cardinality({e \in M : e.category = c})] : c \in {e.category : e \in M}}

getExpenses(u, q) ==
    LET M == {e \in expenses : ExpenseFilterMatch(e, u, q)}
        G == FilterCategoryGroups(expenses, u, q)
    IN  /\ \E sorted \in SortedSeqs(M, {p \in M \X M : ExpenseBefore(p[1], p[2], q)}) :
              \E cb \in SortedSeqs(G, {p \in G \X G : HigherTotal(p[1], p[2])}) :
                  resp' = GetExpensesResponse(expenses, u, q, sorted, cb)
        /\ UNCHANGED <<budgets, expenses, nextBudgetId, nextExpenseId, reqs, today, expensesPage>>

(***************************************************************************)
(* SpecList: expenses are added, then listed                               *)
(***************************************************************************)
\* the filters GET /api/expenses is driven with
ListFilters ==
    {[category |-> "", startDate |-> NoDate, endDate |-> NoDate,
      minAmount |-> <<>>, maxAmount |-> <<>>, search |-> ""],
     [category |-> "dining", startDate |-> NoDate, endDate |-> NoDate,
      minAmount |-> <<>>, maxAmount |-> <<>>, search |-> ""],
     [category |-> "Dining", startDate |-> NoDate, endDate |-> NoDate,
      minAmount |-> <<>>, maxAmount |-> <<>>, search |-> ""],
     [category |-> "all", startDate |-> May2024(1), endDate |-> May2024(3),
      minAmount |-> <<3, 0>>, maxAmount |-> <<5, 0>>, search |-> ""],
     [category |-> "", startDate |-> May2024(3), endDate |-> NoDate,
      minAmount |-> <<>>, maxAmount |-> <<>>, search |-> "DIN"]}

\* the sort fields and directions GET /api/expenses is driven with
ListSorts ==
    {[sortBy |-> "", sortOrder |-> ""],
     [sortBy |-> "amount", sortOrder |-> "asc"],
     [sortBy |-> "amount", sortOrder |-> "desc"],
     [sortBy |-> "date", sortOrder |-> "asc"]}

\* the pages and page sizes GET /api/expenses is driven with
ListPages == {<<>>, <<1>>, <<2>>, <<0, 3>>}
ListLimits == {<<>>, <<1>>, <<2>>}

\* every filter under every sort on the default page, and every page and page
\* size over the dining expenses sorted by amount
ListQueries ==
    {[page |-> <<>>, limit |-> <<>>, category |-> f.category, startDate |-> f.startDate,
      endDate |-> f.endDate, sortBy |-> o.sortBy, sortOrder |-> o.sortOrder,
      search |-> f.search, minAmount |-> f.minAmount, maxAmount |-> f.maxAmount] :
        f \in ListFilters, o \in ListSorts}
    \cup
    {[page |-> pg, limit |-> l, category |-> "dining", startDate |-> NoDate,
      endDate |-> NoDate, sortBy |-> "amount", sortOrder |-> "asc",
      search |-> "", minAmount |-> <<>>, maxAmount |-> <<>>] :
        pg \in ListPages, l \in ListLimits}

\* the client sends request i of the sending order, each request once
SendListExpense(i) ==
    /\ \A e \in expenses : e.description # CompareExpenseRequests[i].body.description
    /\ SendCompareExpense(i)

NextList ==
    \/ \E i \in 1 .. Len(CompareExpenseRequests) : SendListExpense(i)
    \/ \E u \in Users, q \in ListQueries : getExpenses(u, q)

SpecList == InitCompare /\ [][NextList]_vars

(***************************************************************************)
(* Claims on getExpenses                                                   *)
(***************************************************************************)
\* the stored expenses of the requesting user that the query of the last
\* response asks for, the category compared as given (Given) or in lower case
MatchesOf(cat) ==
    {e \in expenses :
        /\ e.user = resp.user
        /\ (cat /= "" /\ cat /= "all") => e.category = cat
        /\ resp.query.startDate /= NoDate => DateLE(resp.query.startDate, e.date)
        /\ resp.query.endDate /= NoDate => DateLE(e.date, resp.query.endDate)
        /\ resp.query.minAmount /= <<>> => e.amount >= DigitsValue(resp.query.minAmount)
        /\ resp.query.maxAmount /= <<>> => e.amount <= DigitsValue(resp.query.maxAmount)
        /\ resp.query.search /= "" => RegexMatch(e.description, resp.query.search)}

RespPage == IF resp.query.page = <<>> THEN 1 ELSE DigitsValue(resp.query.page)
RespLimit == IF resp.query.limit = <<>> THEN 10 ELSE DigitsValue(resp.query.limit)

\* the returned page is in the order the query asks for
RespSorted ==
    \A i \in 1 .. Len(resp.expenses) : \A j \in 1 .. Len(resp.expenses) :
        i < j =>
            LET a == resp.expenses[i]
                b == resp.expenses[j]
                asc == resp.query.sortOrder = "asc"
            IN  CASE resp.query.sortBy = "amount" ->
                       IF asc THEN a.amount <= b.amount ELSE a.amount >= b.amount
                  [] resp.query.sortBy \in {"", "date"} ->
                       IF asc THEN DateLE(a.date, b.date) ELSE DateLE(b.date, a.date)
                  [] OTHER -> TRUE

\* C13: a getExpenses request with page p >= 1 and limit l >= 1 over a filter
\* matching N records reports currentPage = p, totalExpenses = N, totalPages =
\* ceil(N / l), hasPrev iff p > 1 and hasNext iff p * l < N, and the page holds
\* the records at positions (p-1)*l+1 .. min(p*l, N) of the sorted matches: it
\* has that many records, all of them matches, in sorted order, and every
\* match left out sorts no later than the page's first record (it is on an
\* earlier page) or no earlier than its last (it is on a later page), with
\* exactly (p-1)*l matches before the page when the page is not empty.
C13_Pagination ==
    resp.op = "getExpenses" =>
        LET p == RespPage
            l == RespLimit
            M == MatchesOf(ToLowerCase(resp.query.category))
            N == Cardinality(M)
            first == (p - 1) * l + 1
            last == IF p * l < N THEN p * l ELSE N
            onPage == {resp.expenses[i] : i \in 1 .. Len(resp.expenses)}
        IN  /\ resp.pagination.currentPage = p
            /\ resp.pagination.totalExpenses = N
            /\ (resp.pagination.totalPages - 1) * l < N
            /\ N <= resp.pagination.totalPages * l
            /\ resp.pagination.hasPrev <=> p > 1
            /\ resp.pagination.hasNext <=> p * l < N
            /\ Len(resp.expenses) = (IF first > last THEN 0 ELSE last - first + 1)
            /\ Cardinality(onPage) = Len(resp.expenses)
            /\ onPage \subseteq M
            /\ RespSorted
            /\ resp.query.sortBy = "amount" /\ resp.query.sortOrder = "asc" /\ onPage /= {} =>
                  /\ \A e \in M \ onPage :
                        \/ e.amount <= resp.expenses[1].amount
                        \/ e.amount >= resp.expenses[Len(resp.expenses)].amount
                  /\ Cardinality({e \in M : e.amount < resp.expenses[1].amount}) <= first - 1
                  /\ Cardinality({e \in M : e.amount <= resp.expenses[1].amount}) >= first

\* page 2 of size 1 over the dining expenses 20, 30, 50 sorted by amount: the 30
C13_Witness ==
    /\ resp.op = "getExpenses"
    /\ resp.query.page = <<2>>
    /\ resp.query.limit = <<1>>
    /\ resp.pagination.totalExpenses = 3
    /\ resp.pagination.totalPages = 3
    /\ resp.pagination.hasNext
    /\ resp.pagination.hasPrev
    /\ Len(resp.expenses) = 1
    /\ resp.expenses[1].amount = 30

RespExpenseSet == {resp.expenses[i] : i \in 1 .. Len(resp.expenses)}

RespAmounts == [i \in 1 .. Len(resp.expenses) |-> resp.expenses[i].amount]

\* C14 as stated: getExpenses returns only expenses of the requesting user
\* that satisfy every supplied filter, the category being equal to the given
\* value unless it is 'all', in the order asked for.
C14_FilterAsGiven ==
    resp.op = "getExpenses" =>
        /\ RespExpenseSet \subseteq MatchesOf(resp.query.category)
        /\ RespSorted

\* C14 (amended): getExpenses returns only expenses of the requesting user
\* that satisfy every supplied filter (category equal to the given value put
\* in lower case unless the given value is 'all', date within the inclusive
\* range, amount within the inclusive range), all of them when they fit on the
\* page, ordered by the sort field ascending when sortOrder is 'asc' and
\* descending otherwise; category=dining or category=Dining, sortBy=amount,
\* sortOrder=asc over dining expenses 20, 30, 50 returns 20, 30, 50.
C14_FilteredAndSorted ==
    resp.op = "getExpenses" =>
        LET M == MatchesOf(ToLowerCase(resp.query.category))
        IN  /\ RespExpenseSet \subseteq M
            /\ (RespPage = 1 /\ Cardinality(M) <= RespLimit) => RespExpenseSet = M
            /\ RespSorted
            /\ ( /\ resp.query.category \in {"dining", "Dining"}
                 /\ resp.query.sortBy = "amount" /\ resp.query.sortOrder = "asc"
                 /\ resp.query.page = <<>> /\ resp.query.limit = <<>>
                 /\ {e.amount : e \in M} = {20, 30, 50} /\ Cardinality(M) = 3 )
                  => RespAmounts = <<20, 30, 50>>

\* category=Dining, sortBy=amount, sortOrder=asc over the dining expenses 20,
\* 30, 50 of the user, who also has a groceries expense the list leaves out
C14_Witness ==
    /\ resp.op = "getExpenses"
    /\ resp.query.category = "Dining"
    /\ resp.query.sortBy = "amount" /\ resp.query.sortOrder = "asc"
    /\ RespAmounts = <<20, 30, 50>>
    /\ \A i \in 1 .. 3 : resp.expenses[i].category = "dining"

(***************************************************************************)
(* getExpenseById, updateExpense, deleteExpense                            *)
(***************************************************************************)
\* Expense.findOne({ _id: id, user })
ExpenseFindOne(es, id, u) == {e \in es : e.id = id /\ e.user = u}

GetExpenseByIdResponse(es, u, id) ==
    IF ~IdIsValid(id)
    THEN [op |-> "getExpenseById", user |-> u, success |-> FALSE, status |-> 400, message |-> "Invalid expense ID"]
    ELSE IF ExpenseFindOne(es, id, u) = {}
    THEN [op |-> "getExpenseById", user |-> u, success |-> FALSE, status |-> 404, message |-> "Expense not found"]
    ELSE [op |-> "getExpenseById", user |-> u, success |-> TRUE, status |-> 200, message |-> "",
          expense |-> CHOOSE e \in ExpenseFindOne(es, id, u) : TRUE]

getExpenseById(u, id) ==
    /\ resp' = GetExpenseByIdResponse(expenses, u, id)
    /\ UNCHANGED <<budgets, expenses, nextBudgetId, nextExpenseId, reqs, today, expensesPage>>

\* the update document: a field of the body that is falsy is left out
NoUpdate == [description |-> "", amount |-> 0, category |-> "", date |-> NoDate]

\* runValidators: the validators of the paths the update sets, run before the
\* update is sent to the database
UpdateValid(body, now) ==
    /\ body.amount /= 0 => AmountValid(body.amount)
    /\ body.category /= "" => ToLowerCase(body.category) \in Categories
    /\ body.date /= NoDate => DateLE(body.date, now)

\* mutant: every field of the body written, supplied or not
UpdatedExpenseAllFields(e, body) ==
    [e EXCEPT !.description = body.description,
              !.amount = body.amount,
              !.category = ToLowerCase(body.category),
              !.date = body.date]

\* the document after the update
UpdatedExpense(e, body) ==
    [e EXCEPT !.description = IF body.description /= "" THEN body.description ELSE @,
              !.amount = IF body.amount /= 0 THEN body.amount ELSE @,
              !.category = IF body.category /= "" THEN ToLowerCase(body.category) ELSE @,
              !.date = IF body.date /= NoDate THEN body.date ELSE @]

\* mutant: the update addressed by _id alone
ExpenseFindOneAndUpdateAnyUser(es, id, u, body) ==
    {IF e.id = id THEN UpdatedExpense(e, body) ELSE e : e \in es}

\* Expense.findOneAndUpdate({ _id: id, user }, update, { new: true, runValidators: true })
ExpenseFindOneAndUpdate(es, id, u, body) ==
    {IF e.id = id /\ e.user = u THEN UpdatedExpense(e, body) ELSE e : e \in es}

updateExpense(u, id, body) ==
    /\ IF ~IdIsValid(id)
       THEN /\ resp' = [op |-> "updateExpense", user |-> u, success |-> FALSE, status |-> 400,
                        message |-> "Invalid expense ID"]
            /\ UNCHANGED expenses
       ELSE IF ~UpdateValid(body, today)
       THEN /\ resp' = [op |-> "updateExpense", user |-> u, success |-> FALSE, status |-> 400,
                        message |-> "Validation failed"]
            /\ UNCHANGED expenses
       ELSE /\ expenses' = ExpenseFindOneAndUpdate(expenses, id, u, body)
            /\ resp' = IF ExpenseFindOne(expenses', id, u) = {}
                       THEN [op |-> "updateExpense", user |-> u, success |-> FALSE, status |-> 404,
                             message |-> "Expense not found"]
                       ELSE [op |-> "updateExpense", user |-> u, success |-> TRUE, status |-> 200,
                             message |-> "Expense updated successfully",
                             expense |-> CHOOSE e \in ExpenseFindOne(expenses', id, u) : TRUE]
    /\ UNCHANGED <<budgets, nextBudgetId, nextExpenseId, reqs, today, expensesPage>>

\* mutant: the record found and left in the collection
ExpenseFindOneAndDeleteFindOnly(es, id, u) == es

\* Expense.findOneAndDelete({ _id: id, user })
ExpenseFindOneAndDelete(es, id, u) == {e \in es : ~(e.id = id /\ e.user = u)}

deleteExpense(u, id) ==
    /\ resp' =
         IF ~IdIsValid(id)
         THEN [op |-> "deleteExpense", user |-> u, success |-> FALSE, status |-> 400,
               message |-> "Invalid expense ID"]
         ELSE IF ExpenseFindOne(expenses, id, u) = {}
         THEN [op |-> "deleteExpense", user |-> u, success |-> FALSE, status |-> 404,
               message |-> "Expense not found"]
         ELSE [op |-> "deleteExpense", user |-> u, success |-> TRUE, status |-> 200,
               message |-> "Expense deleted successfully"]
    /\ expenses' = IF IdIsValid(id) THEN ExpenseFindOneAndDelete(expenses, id, u) ELSE expenses
    /\ UNCHANGED <<budgets, nextBudgetId, nextExpenseId, reqs, today, expensesPage>>

(***************************************************************************)
(* SpecRecords: records are created, read, updated and deleted one by one  *)
(***************************************************************************)
Jun2024(d) == [year |-> 2024, month |-> 6, day |-> d]

\* the users and request bodies POST /api/expenses is driven with, in the order
\* the clients send them: two that pass validation
RecordExpenseRequests ==
    <<[user |-> "u1", body |-> [description |-> "lunch", amount |-> 20,
                                category |-> "Dining", date |-> May2024(3)]],
      [user |-> "u2", body |-> [description |-> "supper", amount |-> 30,
                                category |-> "dining", date |-> NoDate]]>>

\* and five that break a field rule of the expense schema
InvalidExpenseRequests ==
    <<[user |-> "u1", body |-> [description |-> "", amount |-> 20,
                                category |-> "dining", date |-> May2024(3)]],
      [user |-> "u1", body |-> [description |-> "refund", amount |-> 0,
                                category |-> "dining", date |-> May2024(3)]],
      [user |-> "u1", body |-> [description |-> "credit", amount |-> -5,
                                category |-> "dining", date |-> May2024(3)]],
      [user |-> "u1", body |-> [description |-> "bribe", amount |-> 20,
                                category |-> "bogus", date |-> May2024(3)]],
      [user |-> "u1", body |-> [description |-> "holiday", amount |-> 20,
                                category |-> "travel", date |-> Jun2024(16)]]>>

CreateExpenseRequests == RecordExpenseRequests \o InvalidExpenseRequests

RecordNoneSentAfter(es, i) ==
    \A e \in es : \E j \in 1 .. i : CreateExpenseRequests[j].body.description = e.description

\* the client sends request i of the sending order
SendRecordExpense(i) ==
    /\ RecordNoneSentAfter(expenses, i)
    /\ addExpense(CreateExpenseRequests[i].user, CreateExpenseRequests[i].body)

\* the users and request bodies POST /api/budgets is driven with: one that
\* passes validation
RecordBudgetRequests ==
    {[user |-> "u1", category |-> "Dining", amount |-> <<8, 0>>, month |-> <<5>>, year |-> Y2024]}

\* and those that leave a field out or break a field rule of the budget schema
InvalidBudgetRequests ==
    {[user |-> "u1", category |-> "", amount |-> <<8, 0>>, month |-> <<5>>, year |-> Y2024],
     [user |-> "u1", category |-> "dining", amount |-> <<>>, month |-> <<5>>, year |-> Y2024],
     [user |-> "u1", category |-> "dining", amount |-> <<8, 0>>, month |-> <<>>, year |-> Y2024],
     [user |-> "u1", category |-> "dining", amount |-> <<8, 0>>, month |-> <<5>>, year |-> <<>>],
     [user |-> "u1", category |-> "dining", amount |-> <<0>>, month |-> <<5>>, year |-> Y2024],
     [user |-> "u1", category |-> "dining", amount |-> <<8, 0>>, month |-> <<1, 3>>, year |-> Y2024],
     [user |-> "u1", category |-> "dining", amount |-> <<8, 0>>, month |-> <<0>>, year |-> Y2024],
     [user |-> "u1", category |-> "dining", amount |-> <<8, 0>>, month |-> <<5>>,
      year |-> <<1, 9, 9, 9>>],
     [user |-> "u1", category |-> "dining", amount |-> <<8, 0>>, month |-> <<5>>,
      year |-> <<2, 1, 0, 1>>],
     [user |-> "u1", category |-> "bogus", amount |-> <<8, 0>>, month |-> <<5>>, year |-> Y2024]}

\* the request bodies PUT /api/expenses/:id is driven with
RecordUpdateBodies ==
    {[NoUpdate EXCEPT !.amount = 25],
     [NoUpdate EXCEPT !.amount = -5]}

InvalidUpdateBodies ==
    {[NoUpdate EXCEPT !.category = "bogus"],
     [NoUpdate EXCEPT !.date = Jun2024(16)]}

NextRecords ==
    \/ \E i \in 1 .. Len(RecordExpenseRequests) : SendRecordExpense(i)
    \/ \E b \in RecordBudgetRequests :
          createOrUpdateBudget(b.user, b.category, b.amount, b.month, b.year)
    \/ \E u \in Users, id \in 0 .. MaxExpenseId : getExpenseById(u, id)
    \/ \E u \in Users, id \in 0 .. MaxExpenseId, body \in RecordUpdateBodies :
          updateExpense(u, id, body)
    \/ \E u \in Users, id \in 0 .. MaxExpenseId : deleteExpense(u, id)
    \/ \E u \in Users, id \in 0 .. MaxBudgetId : getBudgetById(u, id)
    \/ \E u \in Users, id \in 0 .. MaxBudgetId : deleteBudget(u, id)

SpecRecords == InitCompare /\ [][NextRecords]_vars

(***************************************************************************)
(* SpecValidate: records are created and updated from bodies that pass     *)
(* validation and bodies that do not                                       *)
(***************************************************************************)
NextValidate ==
    \/ \E i \in 1 .. Len(CreateExpenseRequests) : SendRecordExpense(i)
    \/ \E b \in RecordBudgetRequests \cup InvalidBudgetRequests :
          createOrUpdateBudget(b.user, b.category, b.amount, b.month, b.year)
    \/ \E u \in Users, id \in 1 .. MaxExpenseId,
          body \in RecordUpdateBodies \cup InvalidUpdateBodies : updateExpense(u, id, body)

SpecValidate == InitCompare /\ [][NextValidate]_vars

(***************************************************************************)
(* Claims on single records and on validation                              *)
(***************************************************************************)
\* user u owns no expense, or no budget, with this id
NoExpenseOf(u, id) == ~(\E e \in expenses : e.id = id /\ e.user = u)
NoBudgetOf(u, id) == ~(\E b \in budgets : b.id = id /\ b.user = u)

StoresUnchanged == expenses' = expenses /\ budgets' = budgets

\* the step answers 404 and changes neither store
NotFoundStep == resp'.status = 404 /\ StoresUnchanged

\* the update bodies that break a field rule of the expense schema
BadUpdate(body) ==
    \/ body.amount < 0
    \/ body.category = "bogus"
    \/ (body.date /= NoDate /\ ~DateLE(body.date, today))

\* C15 as stated: every single-record operation addressed to a well-formed id
\* whose record is absent or owned by another user is answered 404 and
\* changes neither store.
C15_AlwaysNotFound ==
    [][ /\ resp'.op \in {"getExpenseById", "updateExpense", "deleteExpense"} =>
             \A id \in 1 .. MaxExpenseId :
                 NoExpenseOf(resp'.user, id) =>
                     /\ getExpenseById(resp'.user, id) => NotFoundStep
                     /\ deleteExpense(resp'.user, id) => NotFoundStep
                     /\ \A body \in RecordUpdateBodies :
                           updateExpense(resp'.user, id, body) => NotFoundStep
        /\ resp'.op \in {"getBudgetById", "deleteBudget"} =>
             \A id \in 1 .. MaxBudgetId :
                 NoBudgetOf(resp'.user, id) =>
                     /\ getBudgetById(resp'.user, id) => NotFoundStep
                     /\ deleteBudget(resp'.user, id) => NotFoundStep ]_vars

\* C15 (amended): every single-record operation addressed to a well-formed id
\* whose record is absent or owned by another user changes neither store and
\* is answered 404, except that a PUT whose body breaks a field rule is
\* answered 400; no request of a user changes a record of another user, and a
\* record a response carries is owned by the requesting user.
C15_NotFoundOrInvalid ==
    [][ /\ resp'.op \in {"getExpenseById", "updateExpense", "deleteExpense"} =>
             \A id \in 1 .. MaxExpenseId :
                 NoExpenseOf(resp'.user, id) =>
                     /\ getExpenseById(resp'.user, id) => NotFoundStep
                     /\ deleteExpense(resp'.user, id) => NotFoundStep
                     /\ \A body \in RecordUpdateBodies :
                           updateExpense(resp'.user, id, body) =>
                               /\ StoresUnchanged
                               /\ resp'.status = IF BadUpdate(body) THEN 400 ELSE 404
        /\ resp'.op \in {"getBudgetById", "deleteBudget"} =>
             \A id \in 1 .. MaxBudgetId :
                 NoBudgetOf(resp'.user, id) =>
                     /\ getBudgetById(resp'.user, id) => NotFoundStep
                     /\ deleteBudget(resp'.user, id) => NotFoundStep
        /\ {e \in expenses' : e.user /= resp'.user} = {e \in expenses : e.user /= resp'.user}
        /\ {b \in budgets' : b.user /= resp'.user} = {b \in budgets : b.user /= resp'.user}
        /\ resp'.op \in {"getExpenseById", "updateExpense"} /\ resp'.status = 200
              => resp'.expense.user = resp'.user
        /\ resp'.op = "getBudgetById" /\ resp'.status = 200
              => resp'.budget.user = resp'.user ]_vars

\* u2 asked to delete an expense by a well-formed id while every id in use
\* belongs to an expense of u1: answered 404, the expenses of u1 in place
C15_Witness ==
    /\ resp.op = "deleteExpense"
    /\ resp.user = "u2"
    /\ resp.status = 404
    /\ {e.id : e \in expenses} = 1 .. MaxExpenseId
    /\ \A e \in expenses : e.user = "u1"

\* the expense body breaks a field rule: description missing or empty, amount
\* not positive, category (in lower case, as the schema stores it) outside
\* the enumeration, date in the future
BreaksExpenseRule(body) ==
    \/ body.description = ""
    \/ body.amount <= 0
    \/ ToLowerCase(body.category) \notin Categories
    \/ (body.date /= NoDate /\ ~DateLE(body.date, today))

\* the budget body leaves out a field or breaks a field rule: amount not
\* positive, month outside 1..12, year outside 2000..2100
BreaksBudgetRule(b) ==
    \/ b.category = ""
    \/ b.amount = <<>>
    \/ b.month = <<>>
    \/ b.year = <<>>
    \/ DigitsValue(b.amount) <= 0
    \/ DigitsValue(b.month) \notin 1 .. 12
    \/ DigitsValue(b.year) \notin 2000 .. 2100

\* the step answers 400 and changes neither store
RejectedStep == resp'.status = 400 /\ StoresUnchanged

StoredRecordsValid ==
    /\ \A e \in expenses : e.amount > 0 /\ e.category \in Categories
    /\ \A b \in budgets : b.amount > 0 /\ b.month \in 1 .. 12 /\ b.year \in 2000 .. 2100

\* C16: a create request that breaks a field rule (expense: description
\* missing or empty, amount not positive, category outside the enumeration
\* once put in lower case as the schema does, date in the future; budget:
\* category, amount, month or year missing, amount not positive, month outside
\* 1..12, year outside 2000..2100) is answered 400 and changes neither store;
\* every stored expense has a positive amount and an enumerated category, and
\* every stored budget a positive amount, a month in 1..12 and a year in
\* 2000..2100.
C16_InvalidCreateRejected ==
    /\ []StoredRecordsValid
    /\ [][ /\ \A i \in 1 .. Len(CreateExpenseRequests) :
                 LET r == CreateExpenseRequests[i]
                 IN  (BreaksExpenseRule(r.body) /\ resp'.op = "addExpense"
                        /\ addExpense(r.user, r.body)) => RejectedStep
            /\ \A b \in RecordBudgetRequests \cup InvalidBudgetRequests :
                 (BreaksBudgetRule(b) /\ resp'.op = "createOrUpdateBudget"
                    /\ createOrUpdateBudget(b.user, b.category, b.amount, b.month, b.year))
                   => RejectedStep ]_vars

\* an expense body that breaks a rule was refused with an expense and a budget
\* in store
C16_Witness ==
    /\ resp.op = "addExpense"
    /\ resp.status = 400
    /\ expenses /= {}
    /\ budgets /= {}

(***************************************************************************)
(* The application: health check, error middleware and fallback route      *)
(***************************************************************************)
\* app.get('/api/health'): the body is { message, status: 'OK' }
healthCheck ==
    /\ resp' = [op |-> "healthCheck", user |-> "", status |-> 200,
                message |-> "Expense Tracker API is running!", bodyStatus |-> "OK"]
    /\ UNCHANGED <<budgets, expenses, nextBudgetId, nextExpenseId, reqs, today, expensesPage>>

\* process.env.NODE_ENV === 'production' ? {} : err.stack
ErrorDetails == {"{}", "err.stack"}

\* app.use((err, req, res, next) => ...): an error handed to next, such as a
\* request body express.json() cannot parse; the body is { message, error }
errorMiddleware ==
    /\ \E detail \in ErrorDetails :
          resp' = [op |-> "errorMiddleware", user |-> "", status |-> 500,
                   message |-> "Something went wrong!", error |-> detail]
    /\ UNCHANGED <<budgets, expenses, nextBudgetId, nextExpenseId, reqs, today, expensesPage>>

\* app.use('*'): a path no router matches; the body is { message }
routeNotFound ==
    /\ resp' = [op |-> "routeNotFound", user |-> "", status |-> 404,
                message |-> "Route not found"]
    /\ UNCHANGED <<budgets, expenses, nextBudgetId, nextExpenseId, reqs, today, expensesPage>>

(***************************************************************************)
(* SpecServer: every route of the application                              *)
(***************************************************************************)
NextServer ==
    \/ NextRecords
    \/ \E u \in Users, q \in BudgetQueries : getBudgets(u, q)
    \/ \E u \in Users, q \in DashboardQueries : getBudgetDashboard(u, q)
    \/ healthCheck
    \/ errorMiddleware
    \/ routeNotFound

SpecServer == InitCompare /\ [][NextServer]_vars

\* C17: every response (success, validation failure, not-found, unmatched
\* route, health check, unexpected fault) is a JSON envelope that carries a
\* boolean success field, and success is false exactly when the status code is
\* 400 or above.
C17_SuccessEnvelope ==
    resp.op /= "none" =>
        /\ "success" \in DOMAIN resp
        /\ resp.success \in BOOLEAN
        /\ resp.success = FALSE <=> resp.status >= 400

(***************************************************************************)
(* Further claims on the monthly summary                                   *)
(***************************************************************************)
\* the total of the expenses of the requesting user in month m of year y
TotalOfMonth(y, m) == SumAmounts(ExpensesOfMonth(expenses, resp.user, y, m))

RespInsightsOfType(type) ==
    {i \in 1 .. Len(resp.insights) : resp.insights[i].type = type}

\* C18: in a monthly summary the previous month of January of year Y is
\* December of year Y-1 and otherwise the month before in the same year;
\* monthOverMonthChange is (current total - previous total) / previous total
\* * 100 when the previous total is positive, reported rounded to two
\* decimals, and 0 when the previous total is 0, in which case no trend
\* insight is emitted.
C18_MonthOverMonthChange ==
    resp.op = "getMonthlyExpenseSummary" =>
        LET py == IF resp.month = 1 THEN resp.year - 1 ELSE resp.year
            pm == IF resp.month = 1 THEN 12 ELSE resp.month - 1
            prev == TotalOfMonth(py, pm)
            cur == TotalOfMonth(resp.year, resp.month)
            r == resp.monthOverMonthChange
        IN  /\ resp.previousMonth.month = pm
            /\ resp.previousMonth.year = py
            /\ resp.previousMonth.totalSpending = prev
            /\ prev > 0 => /\ (2 * r - 1) * prev <= 20000 * (cur - prev)
                           /\ 20000 * (cur - prev) < (2 * r + 1) * prev
            /\ prev = 0 => r = 0 /\ RespInsightsOfType("trend") = {}
            /\ resp.changeType = IF prev > 0 /\ cur > prev THEN "increase"
                                 ELSE IF prev > 0 /\ cur < prev THEN "decrease"
                                 ELSE "no_change"

\* January 2024 asked for with 30 spent in December 2023 and 20 in January:
\* the previous month is 12/2023 and the change is reported as -33.33
C18_Witness ==
    /\ resp.op = "getMonthlyExpenseSummary"
    /\ resp.month = 1 /\ resp.year = 2024
    /\ resp.totalSpending = 20
    /\ resp.previousMonth = [month |-> 12, year |-> 2023, totalSpending |-> 30]
    /\ resp.monthOverMonthChange = -3333
    /\ resp.changeType = "decrease"

\* C19: a monthly summary carries a top-category insight if and only if its
\* category breakdown is not empty, that is the user has expenses in the
\* month; the insight names a category whose total is the largest of the
\* month, and its level is warning when that total is strictly more than 40%
\* of the total spending and info otherwise.
C19_TopCategoryInsight ==
    resp.op = "getMonthlyExpenseSummary" =>
        LET M == ExpensesOfMonth(expenses, resp.user, resp.year, resp.month)
            totalOf(c) == SumAmounts({e \in M : e.category = c})
            cats == RespInsightsOfType("category")
        IN  /\ cats /= {} <=> M /= {}
            /\ cats /= {} <=> resp.categoryBreakdown /= <<>>
            /\ \A i \in cats :
                  /\ resp.insights[i].category \in {e.category : e \in M}
                  /\ \A e \in M : totalOf(e.category) <= totalOf(resp.insights[i].category)
                  /\ resp.insights[i].amount = totalOf(resp.insights[i].category)
                  /\ resp.insights[i].level =
                        IF 100 * resp.insights[i].amount > 40 * resp.totalSpending
                        THEN "warning" ELSE "info"

\* totals 40, 30, 30 in three categories: the top category has exactly 40% of
\* the spending and its insight is of level info
C19_Witness ==
    /\ resp.op = "getMonthlyExpenseSummary"
    /\ resp.totalSpending = 100
    /\ \E i \in RespInsightsOfType("category") :
          /\ resp.insights[i].category = "dining"
          /\ resp.insights[i].amount = 40
          /\ resp.insights[i].level = "info"

\* C20: a monthly summary carries a projection insight if and only if the
\* month asked for is the current calendar month, and the projected total it
\* reports is averagePerDay multiplied by the number of days of the month.
C20_ProjectionInsight ==
    resp.op = "getMonthlyExpenseSummary" =>
        LET proj == RespInsightsOfType("projection")
        IN  /\ proj /= {} <=> (resp.month = today.month /\ resp.year = today.year)
            /\ \A i \in proj :
                  LET p == resp.insights[i].projectedMonthly
                  IN  /\ p.d > 0
                      /\ p.n * resp.averagePerDay.d
                            = resp.averagePerDay.n * resp.daysInMonth * p.d
                      /\ p.n * today.day = resp.totalSpending * resp.daysInMonth * p.d

\* May 2024 asked for on 20 May with 110 spent: 110 / 20 * 31 = 170.5
C20_Witness ==
    /\ resp.op = "getMonthlyExpenseSummary"
    /\ resp.month = 5 /\ today = [year |-> 2024, month |-> 5, day |-> 20]
    /\ resp.totalSpending = 110
    /\ \E i \in RespInsightsOfType("projection") :
          2 * resp.insights[i].projectedMonthly.n = 341 * resp.insights[i].projectedMonthly.d

(***************************************************************************)
(* getYearToDateSummary                                                    *)
(***************************************************************************)
\* $match: { user, date: { $gte: new Date(y, 0, 1), $lte: new Date(y, 11, 31, ...) } }
YearExpenses(es, u, y) == {e \in es : e.user = u /\ e.date.year = y}

\* $group: { _id: { month: { $month: '$date' } }, totalAmount, count }
MonthGroups(es, u, y) ==
    {[month |-> m,
      totalAmount |-> SumAmounts({e \in YearExpenses(es, u, y) : e.date.month = m}),
      count |-> Cardinality({e \in YearExpenses(es, u, y) : e.date.month = m})] :
        m \in {e.date.month : e \in YearExpenses(es, u, y)}}

\* { $sort: { '_id.month': 1 } }
MonthlyBreakdown(es, u, y) ==
    LET G == MonthGroups(es, u, y)
    IN  CHOOSE t \in SortedSeqs(G, {p \in G \X G : p[1].month < p[2].month}) : TRUE

\* $group: { _id: '$category', totalAmount, count }
YearCategoryGroups(es, u, y) ==
    {[category |-> c,
      totalAmount |-> SumAmounts({e \in YearExpenses(es, u, y) : e.category = c}),
      count |-> Cardinality({e \in YearExpenses(es, u, y) : e.category = c})] :
        c \in {e.category : e \in YearExpenses(es, u, y)}}

\* { $sort: { totalAmount: -1 } }
YearlyCategories(es, u, y) ==
    LET G == YearCategoryGroups(es, u, y)
    IN  SortedSeqs(G, {p \in G \X G : HigherTotal(p[1], p[2])})

RECURSIVE SumTotalAmount(_)
\* reduce((sum, cat) => sum + cat.totalAmount, 0)
SumTotalAmount(cs) ==
    IF cs = <<>> THEN 0 ELSE Head(cs).totalAmount + SumTotalAmount(Tail(cs))

RECURSIVE SumCount(_)
\* reduce((sum, cat) => sum + cat.count, 0)
SumCount(cs) == IF cs = <<>> THEN 0 ELSE Head(cs).count + SumCount(Tail(cs))

YearOfQuery(q, now) == IF TruthyDigits(q.year) THEN ParseInt(q.year) ELSE now.year

\* the response of getYearToDateSummary given the result monthlyBreakdown of the
\* first aggregate and the result yearlyCategories of the second
YearToDateOf(u, q, now, monthlyBreakdown, yearlyCategories) ==
    LET yearTotal == SumTotalAmount(yearlyCategories)
        yearCount == SumCount(yearlyCategories)
    IN  [op |-> "getYearToDateSummary", user |-> u, success |-> TRUE, status |-> 200,
         message |-> "",
         year |-> YearOfQuery(q, now),
         totalSpending |-> yearTotal,
         totalExpenses |-> yearCount,
         averageMonthly |-> [n |-> yearTotal, d |-> 12],
         monthlyBreakdown |-> monthlyBreakdown,
         categoryBreakdown |->
             [i \in 1 .. Len(yearlyCategories) |->
                 [category |-> yearlyCategories[i].category,
                  totalAmount |-> yearlyCategories[i].totalAmount,
                  count |-> yearlyCategories[i].count,
                  percentage |-> JsonPercentage(yearlyCategories[i].totalAmount, yearTotal)]]]

\* the handler run with nothing written between its two aggregates
getYearToDateSummary(u, q) ==
    /\ \E yc \in YearlyCategories(expenses, u, YearOfQuery(q, today)) :
          resp' = YearToDateOf(u, q, today,
                               MonthlyBreakdown(expenses, u, YearOfQuery(q, today)), yc)
    /\ UNCHANGED <<budgets, expenses, nextBudgetId, nextExpenseId, reqs, today, expensesPage>>

(***************************************************************************)
(* SpecInsights: seven expenses of a month are deleted and summarised      *)
(***************************************************************************)
\* the request bodies user u1 has posted before the first step, in this order
InsightExpenseRequests ==
    <<[description |-> "rent", amount |-> 15, category |-> "housing", date |-> May2024(1)],
      [description |-> "repair", amount |-> 15, category |-> "housing", date |-> May2024(2)],
      [description |-> "lunch", amount |-> 15, category |-> "dining", date |-> May2024(3)],
      [description |-> "dinner", amount |-> 15, category |-> "dining", date |-> May2024(4)],
      [description |-> "market", amount |-> 15, category |-> "groceries", date |-> May2024(5)],
      [description |-> "train", amount |-> 15, category |-> "travel", date |-> May2024(6)],
      [description |-> "socks", amount |-> 10, category |-> "shopping", date |-> May2024(7)]>>

\* the store after those requests: every one of them passes validation
InitInsights ==
    /\ budgets = {}
    /\ expenses = {NewExpense("u1", InsightExpenseRequests[i], i, Today0) :
                      i \in 1 .. Len(InsightExpenseRequests)}
    /\ \A e \in expenses : ExpenseValid(e, Today0)
    /\ nextBudgetId = 1
    /\ nextExpenseId = Len(InsightExpenseRequests) + 1
    /\ reqs = [r \in Slots |-> IdleReq]
    /\ resp = NoResp
    /\ today = Today0
    /\ expensesPage = Unmounted

NextInsights ==
    \/ \E u \in Users, id \in 1 .. Len(InsightExpenseRequests) : deleteExpense(u, id)
    \/ \E u \in Users : getMonthlyExpenseSummary(u, [month |-> <<>>, year |-> <<>>])
    \/ \E u \in Users : getYearToDateSummary(u, [year |-> <<>>])

SpecInsights == InitInsights /\ [][NextInsights]_vars

(***************************************************************************)
(* Claims on the large-expense and concentration insights                  *)
(***************************************************************************)
\* the largest amount among the expenses of S
LargestAmount(S) == CHOOSE a \in {e.amount : e \in S} : \A e \in S : e.amount <= a

\* C21: a monthly summary carries a large-single-expense insight if and only
\* if the largest expense amount of the month is strictly more than 15% of
\* the month's total spending; its level is warning when that share is
\* strictly more than 25% and caution otherwise, and the expense it names is
\* one with the largest amount among all expenses of the month.
C21_LargeExpenseInsight ==
    resp.op = "getMonthlyExpenseSummary" =>
        LET M == ExpensesOfMonth(expenses, resp.user, resp.year, resp.month)
            total == SumAmounts(M)
            large == RespInsightsOfType("expense")
        IN  /\ large /= {} <=> (M /= {} /\ 100 * LargestAmount(M) > 15 * total)
            /\ Cardinality(large) <= 1
            /\ \A i \in large :
                  /\ resp.insights[i].level =
                        IF 100 * LargestAmount(M) > 25 * total THEN "warning" ELSE "caution"
                  /\ resp.insights[i].amount = LargestAmount(M)
                  /\ \E e \in M : e.id = resp.insights[i].expense
                                    /\ e.amount = LargestAmount(M)

\* four expenses of 15: the largest is exactly 25% of the 60 spent and the
\* insight is of level caution
C21_Witness ==
    /\ resp.op = "getMonthlyExpenseSummary"
    /\ resp.totalSpending = 60 /\ resp.totalExpenses = 4
    /\ \E i \in RespInsightsOfType("expense") :
          resp.insights[i].amount = 15 /\ resp.insights[i].level = "caution"

\* the totals of the categories of the expenses of S, as a bag would list them
CategoryTotals(S) ==
    [c \in {e.category : e \in S} |-> SumAmounts({e \in S : e.category = c})]

\* some three categories of S hold strictly more than k% of the total of S
\* (then so do the three largest)
ThreeCategoriesAbove(S, k) ==
    LET t == CategoryTotals(S)
    IN  \E a \in DOMAIN t : \E b \in DOMAIN t \ {a} : \E c \in DOMAIN t \ {a, b} :
            100 * (t[a] + t[b] + t[c]) > k * SumAmounts(S)

\* C22: a monthly summary carries a concentration (distribution) insight if
\* and only if the month's expenses fall in at least 3 categories and the
\* three largest category totals together are strictly more than 80% of the
\* total spending; with exactly 3 categories the insight is always emitted.
C22_ConcentrationInsight ==
    resp.op = "getMonthlyExpenseSummary" =>
        LET M == ExpensesOfMonth(expenses, resp.user, resp.year, resp.month)
            dist == RespInsightsOfType("distribution")
        IN  /\ dist /= {} <=> ThreeCategoriesAbove(M, 80)
            /\ Cardinality(dist) <= 1
            /\ Cardinality({e.category : e \in M}) = 3 => dist /= {}
            /\ Cardinality({e.category : e \in M}) < 3 => dist = {}

\* category totals 30, 15, 15, 15: four categories whose three largest hold
\* exactly 80% of the 75 spent, and no concentration insight
C22_Witness ==
    /\ resp.op = "getMonthlyExpenseSummary"
    /\ resp.totalSpending = 75
    /\ Len(resp.categoryBreakdown) = 4
    /\ resp.categoryBreakdown[1].totalAmount = 30
    /\ RespInsightsOfType("distribution") = {}

(***************************************************************************)
(* The reading handlers query by query: every await of a handler lets the  *)
(* requests of other clients run before the handler goes on.  A handler in *)
(* flight keeps its position and its local constants in its slot of reqs.  *)
(***************************************************************************)
MonthOfQuery(q, now) == IF TruthyDigits(q.month) THEN ParseInt(q.month) ELSE now.month

\* getMonthlyExpenseSummary up to the result of Expense.find
getMonthlyExpenseSummaryFind(r, u, q) ==
    /\ reqs[r].pc = "idle"
    /\ reqs' = [reqs EXCEPT ![r] =
                  [pc |-> "summaryFound", user |-> u, query |-> q,
                   expenses |-> MonthExpenses(expenses, u, YearOfQuery(q, today),
                                              MonthOfQuery(q, today)),
                   categoryBreakdown |-> <<>>]]
    /\ UNCHANGED <<budgets, expenses, nextBudgetId, nextExpenseId, resp, today, expensesPage>>

\* on to the result of the category aggregate
getMonthlyExpenseSummaryAggregate(r) ==
    /\ reqs[r].pc = "summaryFound"
    /\ \E cb \in CategoryBreakdowns(expenses, reqs[r].user, YearOfQuery(reqs[r].query, today),
                                    MonthOfQuery(reqs[r].query, today)) :
          reqs' = [reqs EXCEPT ![r] = [@ EXCEPT !.pc = "summaryGrouped",
                                                !.categoryBreakdown = cb]]
    /\ UNCHANGED <<budgets, expenses, nextBudgetId, nextExpenseId, resp, today, expensesPage>>

\* on to the previous month's aggregate and the response (the daily and weekly
\* aggregates in between fill response fields that are left out)
getMonthlyExpenseSummaryRespond(r) ==
    /\ reqs[r].pc = "summaryGrouped"
    /\ LET u == reqs[r].user
           q == reqs[r].query
           y == YearOfQuery(q, today)
           m == MonthOfQuery(q, today)
       IN  \E top \in TopExpenses(reqs[r].expenses, u, y, m) :
              resp' = MonthlySummaryOf(u, q, today, reqs[r].expenses,
                                       reqs[r].categoryBreakdown, top,
                                       SumAmounts(MonthExpenses(expenses, u, PrevYear(y, m),
                                                                PrevMonth(m))))
    /\ reqs' = [reqs EXCEPT ![r] = IdleReq]
    /\ UNCHANGED <<budgets, expenses, nextBudgetId, nextExpenseId, today, expensesPage>>

\* getExpenses up to the result of Expense.find(filter).sort().skip().limit()
getExpensesFind(r, u, q) ==
    /\ reqs[r].pc = "idle"
    /\ LET M == {e \in expenses : ExpenseFilterMatch(e, u, q)}
       IN  \E sorted \in SortedSeqs(M, {p \in M \X M : ExpenseBefore(p[1], p[2], q)}) :
              reqs' = [reqs EXCEPT ![r] =
                         [pc |-> "listFound", user |-> u, query |-> q,
                          expenses |-> SkipLimit(sorted, QuerySkip(q), QueryLimit(q)),
                          total |-> 0, summary |-> SummaryStats({}, u, q)]]
    /\ UNCHANGED <<budgets, expenses, nextBudgetId, nextExpenseId, resp, today, expensesPage>>

\* on to the result of Expense.countDocuments(filter)
getExpensesCount(r) ==
    /\ reqs[r].pc = "listFound"
    /\ reqs' = [reqs EXCEPT ![r] =
                  [@ EXCEPT !.pc = "listCounted",
                            !.total = Cardinality({e \in expenses :
                                          ExpenseFilterMatch(e, reqs[r].user, reqs[r].query)})]]
    /\ UNCHANGED <<budgets, expenses, nextBudgetId, nextExpenseId, resp, today, expensesPage>>

\* on to the result of the statistics aggregate
getExpensesStats(r) ==
    /\ reqs[r].pc = "listCounted"
    /\ reqs' = [reqs EXCEPT ![r] =
                  [@ EXCEPT !.pc = "listSummarised",
                            !.summary = SummaryStats(expenses, reqs[r].user, reqs[r].query)]]
    /\ UNCHANGED <<budgets, expenses, nextBudgetId, nextExpenseId, resp, today, expensesPage>>

\* on to the result of the category aggregate and the response
getExpensesRespond(r) ==
    /\ reqs[r].pc = "listSummarised"
    /\ LET G == FilterCategoryGroups(expenses, reqs[r].user, reqs[r].query)
       IN  \E cb \in SortedSeqs(G, {p \in G \X G : HigherTotal(p[1], p[2])}) :
              resp' = GetExpensesOf(reqs[r].user, reqs[r].query, reqs[r].expenses,
                                    reqs[r].total, reqs[r].summary, cb)
    /\ reqs' = [reqs EXCEPT ![r] = IdleReq]
    /\ UNCHANGED <<budgets, expenses, nextBudgetId, nextExpenseId, today, expensesPage>>

\* getYearToDateSummary up to the result of the monthly aggregate
getYearToDateSummaryMonths(r, u, q) ==
    /\ reqs[r].pc = "idle"
    /\ reqs' = [reqs EXCEPT ![r] =
                  [pc |-> "yearMonths", user |-> u, query |-> q,
                   monthlyBreakdown |-> MonthlyBreakdown(expenses, u, YearOfQuery(q, today))]]
    /\ UNCHANGED <<budgets, expenses, nextBudgetId, nextExpenseId, resp, today, expensesPage>>

\* on to the result of the category aggregate and the response
getYearToDateSummaryRespond(r) ==
    /\ reqs[r].pc = "yearMonths"
    /\ \E yc \in YearlyCategories(expenses, reqs[r].user, YearOfQuery(reqs[r].query, today)) :
          resp' = YearToDateOf(reqs[r].user, reqs[r].query, today,
                               reqs[r].monthlyBreakdown, yc)
    /\ reqs' = [reqs EXCEPT ![r] = IdleReq]
    /\ UNCHANGED <<budgets, expenses, nextBudgetId, nextExpenseId, today, expensesPage>>

(***************************************************************************)
(* SpecOverlap: a user's reads overlap the same user's writes              *)
(***************************************************************************)
\* the request bodies POST /api/expenses is driven with, in sending order
OverlapExpenseRequests ==
    <<[description |-> "lunch", amount |-> 20, category |-> "dining", date |-> May2024(3)],
      [description |-> "market", amount |-> 30, category |-> "groceries", date |-> May2024(4)]>>

\* the client sends request i, each request once and in the sending order
SendOverlapExpense(u, i) ==
    /\ nextExpenseId = i
    /\ addExpense(u, OverlapExpenseRequests[i])

\* the bodies PUT /api/expenses/:id is driven with
OverlapUpdateBodies == {[NoUpdate EXCEPT !.amount = 25]}

\* the query string of a request without parameters
NoListQuery ==
    [page |-> <<>>, limit |-> <<>>, category |-> "", startDate |-> NoDate,
     endDate |-> NoDate, sortBy |-> "", sortOrder |-> "", search |-> "",
     minAmount |-> <<>>, maxAmount |-> <<>>]

\* the one reading handler in flight
OverlapSlots == {"r1"}

NextOverlap ==
    \/ \E i \in 1 .. Len(OverlapExpenseRequests) : SendOverlapExpense("u1", i)
    \/ \E body \in OverlapUpdateBodies : updateExpense("u1", 1, body)
    \/ \E id \in 1 .. Len(OverlapExpenseRequests) : deleteExpense("u1", id)
    \/ \E r \in OverlapSlots :
          \/ getMonthlyExpenseSummaryFind(r, "u1", [month |-> <<>>, year |-> <<>>])
          \/ getMonthlyExpenseSummaryAggregate(r)
          \/ getMonthlyExpenseSummaryRespond(r)
          \/ getExpensesFind(r, "u1", NoListQuery)
          \/ getExpensesCount(r)
          \/ getExpensesStats(r)
          \/ getExpensesRespond(r)
          \/ getYearToDateSummaryMonths(r, "u1", [year |-> <<>>])
          \/ getYearToDateSummaryRespond(r)

SpecOverlap == InitSummary /\ [][NextOverlap]_vars

(***************************************************************************)
(* Claims on the category percentages and on overlapping reads and writes  *)
(***************************************************************************)
\* C23: in the category breakdown of a monthly and of a year-to-date summary
\* each entry's percentage is its total / the summary's total spending * 100
\* rounded to two decimals, the entries come in descending order of total,
\* and when the total spending is 0 every reported percentage is 0.
C23_CategoryPercentages ==
    resp.op \in {"getMonthlyExpenseSummary", "getYearToDateSummary"} =>
        \A i \in 1 .. Len(resp.categoryBreakdown) :
            LET cat == resp.categoryBreakdown[i]
                total == resp.totalSpending
            IN  /\ total = 0 => cat.percentage = 0
                /\ total /= 0 =>
                      /\ (2 * cat.percentage - 1) * total <= 20000 * cat.totalAmount
                      /\ 20000 * cat.totalAmount < (2 * cat.percentage + 1) * total
                /\ i < Len(resp.categoryBreakdown) =>
                      cat.totalAmount >= resp.categoryBreakdown[i + 1].totalAmount

\* C27: in every monthly summary the category totals add up to totalSpending
\* and the category counts to totalExpenses, and in every getExpenses response
\* pagination.totalExpenses equals summary.count, also when a write of the
\* same user runs between the handler's queries.
C27_ResponseConsistent ==
    /\ resp.op = "getMonthlyExpenseSummary" =>
          /\ SumTotalAmount(resp.categoryBreakdown) = resp.totalSpending
          /\ SumCount(resp.categoryBreakdown) = resp.totalExpenses
    /\ resp.op = "getExpenses" => resp.pagination.totalExpenses = resp.summary.count

(***************************************************************************)
(* Claims on the dashboard against the budget list                         *)
(***************************************************************************)
\* the query string of GET /api/budgets for a period of 2024
PeriodQuery(period) ==
    [month |-> IF period.month < 10 THEN <<period.month>> ELSE <<1, period.month - 10>>,
     year |-> Y2024, category |-> "", includeInactive |-> ""]

\* the dashboard status that stands for a status of getBudgets
DashboardStatusOf(status) ==
    CASE status = "exceeded" -> "danger"
      [] status = "warning" -> "warning"
      [] status = "caution" -> "caution"
      [] status = "within_budget" -> "success"

\* the budgets of a dashboard response and of the getBudgets response for the
\* same user, period and stores carry the same figures budget by budget
SameComparisons(dashboard, list) ==
    /\ {dashboard.budgets[i].budget : i \in 1 .. Len(dashboard.budgets)}
          = {list.budgets[j].budget : j \in 1 .. Len(list.budgets)}
    /\ \A i \in 1 .. Len(dashboard.budgets) : \A j \in 1 .. Len(list.budgets) :
          dashboard.budgets[i].budget = list.budgets[j].budget =>
              /\ dashboard.budgets[i].totalSpent = list.budgets[j].totalSpent
              /\ dashboard.budgets[i].remainingBudget = list.budgets[j].remainingBudget
              /\ dashboard.budgets[i].percentageUsed = list.budgets[j].percentageUsed
              /\ dashboard.budgets[i].status = DashboardStatusOf(list.budgets[j].status)

\* C24: for the same user, period and stored records getBudgetDashboard and
\* getBudgets report for each active budget the same totalSpent, remaining
\* budget and percentageUsed, statuses that correspond (exceeded/danger,
\* warning/warning, caution/caution, within_budget/success), and the same
\* budgetsExceeded and budgetsInWarning counts in their summaries.
C24_DashboardAgrees ==
    (resp.op = "getBudgetDashboard" /\ resp.period.year = 2024) =>
        LET list == GetBudgetsResponse(budgets, expenses, resp.user,
                                       PeriodQuery(resp.period), today)
        IN  /\ SameComparisons(resp, list)
            /\ resp.summary.budgetsInWarning = list.summary.budgetsInWarning
            /\ resp.summary.budgetsExceeded = list.summary.budgetsExceeded

(***************************************************************************)
(* SpecLifecycle: records are created, updated and deleted, and the lists  *)
(* and summaries are read in between                                       *)
(***************************************************************************)
NextLifecycle ==
    \/ \E i \in 1 .. Len(RecordExpenseRequests) : SendRecordExpense(i)
    \/ \E b \in RecordBudgetRequests :
          createOrUpdateBudget(b.user, b.category, b.amount, b.month, b.year)
    \/ \E id \in 0 .. MaxExpenseId : getExpenseById("u1", id)
    \/ \E id \in 0 .. MaxExpenseId, body \in RecordUpdateBodies :
          updateExpense("u1", id, body)
    \/ \E u \in Users, id \in 0 .. MaxExpenseId : deleteExpense(u, id)
    \/ getExpenses("u1", NoListQuery)
    \/ getMonthlyExpenseSummary("u1", [month |-> <<5>>, year |-> Y2024])
    \/ getBudgets("u1", AllBudgetsQuery)

SpecLifecycle == InitCompare /\ [][NextLifecycle]_vars

(***************************************************************************)
(* Claims on the lifecycle of an expense                                   *)
(***************************************************************************)
\* an _id that was given to an expense and is in the collection no more
Gone(id) == id < nextExpenseId /\ \A e \in expenses : e.id /= id

\* every figure of a list, a monthly summary or a budget comparison is taken
\* from the expenses that are stored
ReadsOnlyStored ==
    /\ resp.op = "getExpenses" =>
          /\ \A i \in 1 .. Len(resp.expenses) : resp.expenses[i] \in expenses
          /\ resp.summary.totalAmount = SumAmounts({e \in expenses : e.user = resp.user})
          /\ resp.pagination.totalExpenses
                = Cardinality({e \in expenses : e.user = resp.user})
    /\ resp.op = "getMonthlyExpenseSummary" =>
          /\ resp.totalSpending
                = SumAmounts(ExpensesOfMonth(expenses, resp.user, resp.year, resp.month))
          /\ \A i \in 1 .. Len(resp.topExpenses) : resp.topExpenses[i] \in expenses
    /\ resp.op = "getBudgets" =>
          \A i \in 1 .. Len(resp.budgets) :
              resp.budgets[i].totalSpent
                 = SumAmounts({e \in ExpensesOfMonth(expenses, resp.user,
                                                     resp.budgets[i].budget.year,
                                                     resp.budgets[i].budget.month) :
                                  e.category = resp.budgets[i].budget.category})

\* a successful deleteExpense takes exactly the addressed record of the owner
\* out of the collection
DeleteRemoves ==
    (resp'.op = "deleteExpense" /\ resp'.status = 200) =>
        \E e \in expenses :
            /\ e.user = resp'.user
            /\ deleteExpense(resp'.user, e.id)
            /\ expenses' = expenses \ {e}
            /\ Gone(e.id)'

\* a successful updateExpense changes one record in place: same id, same
\* owner, same number of stored expenses
UpdateInPlace ==
    (resp'.op = "updateExpense" /\ resp'.status = 200) =>
        /\ Cardinality(expenses') = Cardinality(expenses)
        /\ \E e \in expenses :
              /\ resp'.expense.id = e.id /\ resp'.expense.user = e.user
              /\ e.user = resp'.user
              /\ expenses' = (expenses \ {e}) \cup {resp'.expense}

SuccessfulWrite(r) ==
    /\ reqs[r].pc = "looked" /\ reqs'[r].pc = "done"
    /\ reqs'[r].status \in {200, 201}

\* the response of slot r carries a budget record, and the store right after
\* the write holds a budget of the requested tuple with the requested amount
WrittenAsAnswered(r) ==
    /\ reqs'[r].budgetId /= NoId
    /\ \E b \in budgets' :
          /\ b.id = reqs'[r].budgetId
          /\ b.user = reqs[r].user
          /\ b.category = ToLowerCase(reqs[r].category)
          /\ b.month = ParseInt(reqs[r].month)
          /\ b.year = ParseInt(reqs[r].year)
          /\ b.amount = ParseFloat(reqs[r].amount)

\* C26: whenever createOrUpdateBudget answers with success (200 or 201) the
\* response carries a budget record and, when the write completed, the store
\* held a budget of the requested (user, category, month, year) with the
\* requested amount, also when a deleteBudget of that record runs between the
\* handler's lookup and its update.
C26_SuccessMeansStored ==
    [][\A r \in Slots : SuccessfulWrite(r) => WrittenAsAnswered(r)]_vars

UpdateFieldBodies ==
    {NoUpdate,
     [NoUpdate EXCEPT !.description = "brunch"],
     [NoUpdate EXCEPT !.amount = 25],
     [NoUpdate EXCEPT !.category = "GROCERIES"],
     [NoUpdate EXCEPT !.date = May2024(1)],
     [description |-> "banquet", amount |-> 50, category |-> "dining", date |-> May2024(31)],
     [NoUpdate EXCEPT !.description = "credit", !.amount = -5],
     [NoUpdate EXCEPT !.description = "bribe", !.category = "bogus"],
     [NoUpdate EXCEPT !.amount = 25, !.date = Jun2024(16)]}

\* the client sends request i of RecordExpenseRequests, each once and in order
SendUpdateExpense(i) ==
    /\ nextExpenseId = i
    /\ addExpense(RecordExpenseRequests[i].user, RecordExpenseRequests[i].body)

NextUpdate ==
    \/ \E i \in 1 .. Len(RecordExpenseRequests) : SendUpdateExpense(i)
    \/ \E u \in Users, id \in 0 .. Len(RecordExpenseRequests), body \in UpdateFieldBodies :
          updateExpense(u, id, body)

SpecUpdate == InitCompare /\ [][NextUpdate]_vars

(***************************************************************************)
(* Claims on the frame of updateExpense                                    *)
(***************************************************************************)
\* document after is document before with exactly the fields body supplies
\* with a truthy value set to those values
OnlySuppliedChanged(before, after, body) ==
    /\ after.id = before.id
    /\ after.user = before.user
    /\ after.description = IF body.description /= "" THEN body.description
                           ELSE before.description
    /\ after.amount = IF body.amount /= 0 THEN body.amount ELSE before.amount
    /\ after.category = IF body.category = "" THEN before.category
                        ELSE IF body.category = "GROCERIES" THEN "groceries"
                        ELSE body.category
    /\ after.date = IF body.date /= NoDate THEN body.date ELSE before.date

PageUser == "u1"

\* the apiClient calls the page makes in one run
MaxCalls == 3

\* what an answer carries before the server has given it
NoAnswer == [success |-> FALSE, expenses |-> <<>>, pagination |-> InitialPagination]

\* apiClient.getExpenses({...filters, page: 1, limit: 20}) as the query string
PageQuery(filters) ==
    [page |-> <<1>>, limit |-> <<2, 0>>, category |-> filters.category, startDate |-> NoDate,
     endDate |-> NoDate, sortBy |-> filters.sortBy, sortOrder |-> filters.sortOrder,
     search |-> "", minAmount |-> <<>>, maxAmount |-> <<>>]

\* a call of kind k made while the page renders filters
NewCall(k, filters, target, body) ==
    [kind |-> k, filters |-> filters, target |-> target, body |-> body,
     state |-> "sent", answer |-> NoAnswer]

\* fetchExpenses up to its await: setLoading(true) and the call sent with the
\* filters of the render the function belongs to
FetchExpensesSent(p, filters) ==
    [p EXCEPT !.loading = TRUE,
              !.calls = Append(@, NewCall("getExpenses", filters, 0, NoUpdate))]

\* { ...prev, ...newFilters }
MergedFilters(prev, newFilters) ==
    [k \in DOMAIN prev |-> IF k \in DOMAIN newFilters THEN newFilters[k] ELSE prev[k]]

\* the values the filter selects of the page are changed to
FilterChanges ==
    {[category |-> "all"], [category |-> "groceries"], [sortOrder |-> "asc"],
     [sortOrder |-> "desc"]}

\* the form data the modal submits
SubmitBodies ==
    {[description |-> "tea", amount |-> 5, category |-> "groceries", date |-> May2024(5)]}

\* the expenses stored when the page is opened
PageExpenseRequests ==
    <<[description |-> "lunch", amount |-> 20, category |-> "dining", date |-> May2024(3)],
      [description |-> "market", amount |-> 30, category |-> "groceries", date |-> May2024(4)]>>

\* the page mounted over the stored expenses: the effect has run fetchExpenses
InitPage ==
    /\ budgets = {}
    /\ expenses = {NewExpense(PageUser, PageExpenseRequests[i], i, Today0) :
                      i \in 1 .. Len(PageExpenseRequests)}
    /\ \A e \in expenses : ExpenseValid(e, Today0)
    /\ nextBudgetId = 1
    /\ nextExpenseId = Len(PageExpenseRequests) + 1
    /\ reqs = [r \in Slots |-> IdleReq]
    /\ resp = NoResp
    /\ today = Today0
    /\ expensesPage = FetchExpensesSent(Unmounted, InitialFilters)

\* a select changed to another value: setFilters, and the effect on [filters]
\* runs fetchExpenses of the new render
handleFilterChange(newFilters) ==
    /\ Len(expensesPage.calls) < MaxCalls
    /\ MergedFilters(expensesPage.filters, newFilters) /= expensesPage.filters
    /\ LET filters == MergedFilters(expensesPage.filters, newFilters)
       IN  expensesPage' = FetchExpensesSent([expensesPage EXCEPT !.filters = filters], filters)
    /\ UNCHANGED <<budgets, expenses, nextBudgetId, nextExpenseId, reqs, resp, today>>

handleAddExpense ==
    /\ expensesPage' = [expensesPage EXCEPT !.editingExpense = 0, !.isModalOpen = TRUE]
    /\ expensesPage' /= expensesPage
    /\ UNCHANGED <<budgets, expenses, nextBudgetId, nextExpenseId, reqs, resp, today>>

\* the edit button of a listed expense
handleEditExpense(i) ==
    /\ i \in 1 .. Len(expensesPage.expenses)
    /\ expensesPage' = [expensesPage EXCEPT !.editingExpense = expensesPage.expenses[i].id,
                                            !.isModalOpen = TRUE]
    /\ expensesPage' /= expensesPage
    /\ UNCHANGED <<budgets, expenses, nextBudgetId, nextExpenseId, reqs, resp, today>>

\* handleSubmitExpense up to its await: the form of the open modal submitted
handleSubmitExpense(expenseData) ==
    /\ expensesPage.isModalOpen
    /\ Len(expensesPage.calls) < MaxCalls
    /\ expensesPage' =
         [expensesPage EXCEPT
            !.submitting = TRUE,
            !.calls = Append(@, NewCall(IF expensesPage.editingExpense /= 0
                                        THEN "updateExpense" ELSE "addExpense",
                                        expensesPage.filters, expensesPage.editingExpense,
                                        expenseData))]
    /\ UNCHANGED <<budgets, expenses, nextBudgetId, nextExpenseId, reqs, resp, today>>

\* handleDeleteExpense up to its await: the delete button of a listed expense
handleDeleteExpense(i) ==
    /\ i \in 1 .. Len(expensesPage.expenses)
    /\ Len(expensesPage.calls) < MaxCalls
    /\ expensesPage' =
         [expensesPage EXCEPT
            !.calls = Append(@, NewCall("deleteExpense", expensesPage.filters,
                                        expensesPage.expenses[i].id, NoUpdate))]
    /\ UNCHANGED <<budgets, expenses, nextBudgetId, nextExpenseId, reqs, resp, today>>

\* the page after the server answered call i with response r
Answered(p, i, r) ==
    [p EXCEPT !.calls[i].state = "answered",
              !.calls[i].answer =
                  [success |-> r.success,
                   expenses |-> IF r.op = "getExpenses" THEN r.expenses ELSE <<>>,
                   pagination |-> IF r.op = "getExpenses"
                                  THEN [currentPage |-> r.pagination.currentPage,
                                        totalPages |-> r.pagination.totalPages,
                                        totalExpenses |-> r.pagination.totalExpenses]
                                  ELSE InitialPagination]]

\* the server handles call i, a GET /api/expenses
apiGetExpenses(i) ==
    /\ i \in 1 .. Len(expensesPage.calls)
    /\ expensesPage.calls[i].state = "sent"
    /\ expensesPage.calls[i].kind = "getExpenses"
    /\ LET q == PageQuery(expensesPage.calls[i].filters)
           M == {e \in expenses : ExpenseFilterMatch(e, PageUser, q)}
           G == FilterCategoryGroups(expenses, PageUser, q)
       IN  \E sorted \in SortedSeqs(M, {p \in M \X M : ExpenseBefore(p[1], p[2], q)}) :
             \E cb \in SortedSeqs(G, {p \in G \X G : HigherTotal(p[1], p[2])}) :
                 resp' = GetExpensesResponse(expenses, PageUser, q, sorted, cb)
    /\ expensesPage' = Answered(expensesPage, i, resp')
    /\ UNCHANGED <<budgets, expenses, nextBudgetId, nextExpenseId, reqs, today>>

\* the server handles call i, a POST /api/expenses
apiAddExpense(i) ==
    /\ i \in 1 .. Len(expensesPage.calls)
    /\ expensesPage.calls[i].state = "sent"
    /\ expensesPage.calls[i].kind = "addExpense"
    /\ nextExpenseId <= MaxExpenseId
    /\ LET doc == NewExpense(PageUser, expensesPage.calls[i].body, nextExpenseId, today)
       IN  IF ExpenseValid(doc, today)
           THEN /\ expenses' = expenses \cup {doc}
                /\ nextExpenseId' = nextExpenseId + 1
                /\ resp' = [op |-> "addExpense", user |-> PageUser, success |-> TRUE,
                            status |-> 201, message |-> "Expense added successfully"]
           ELSE /\ UNCHANGED <<expenses, nextExpenseId>>
                /\ resp' = [op |-> "addExpense", user |-> PageUser, success |-> FALSE,
                            status |-> 400, message |-> "Validation failed"]
    /\ expensesPage' = Answered(expensesPage, i, resp')
    /\ UNCHANGED <<budgets, nextBudgetId, reqs, today>>

\* the server handles call i, a PUT /api/expenses/:id
apiUpdateExpense(i) ==
    /\ i \in 1 .. Len(expensesPage.calls)
    /\ expensesPage.calls[i].state = "sent"
    /\ expensesPage.calls[i].kind = "updateExpense"
    /\ LET id == expensesPage.calls[i].target
           body == expensesPage.calls[i].body
       IN  IF ~UpdateValid(body, today)
           THEN /\ resp' = [op |-> "updateExpense", user |-> PageUser, success |-> FALSE,
                            status |-> 400, message |-> "Validation failed"]
                /\ UNCHANGED expenses
           ELSE /\ expenses' = ExpenseFindOneAndUpdate(expenses, id, PageUser, body)
                /\ resp' = IF ExpenseFindOne(expenses', id, PageUser) = {}
                           THEN [op |-> "updateExpense", user |-> PageUser, success |-> FALSE,
                                 status |-> 404, message |-> "Expense not found"]
                           ELSE [op |-> "updateExpense", user |-> PageUser, success |-> TRUE,
                                 status |-> 200, message |-> "Expense updated successfully"]
    /\ expensesPage' = Answered(expensesPage, i, resp')
    /\ UNCHANGED <<budgets, nextBudgetId, nextExpenseId, reqs, today>>

\* the server handles call i, a DELETE /api/expenses/:id
apiDeleteExpense(i) ==
    /\ i \in 1 .. Len(expensesPage.calls)
    /\ expensesPage.calls[i].state = "sent"
    /\ expensesPage.calls[i].kind = "deleteExpense"
    /\ LET id == expensesPage.calls[i].target
       IN  /\ resp' = IF ExpenseFindOne(expenses, id, PageUser) = {}
                      THEN [op |-> "deleteExpense", user |-> PageUser, success |-> FALSE,
                            status |-> 404, message |-> "Expense not found"]
                      ELSE [op |-> "deleteExpense", user |-> PageUser, success |-> TRUE,
                            status |-> 200, message |-> "Expense deleted successfully"]
           /\ expenses' = ExpenseFindOneAndDelete(expenses, id, PageUser)
    /\ expensesPage' = Answered(expensesPage, i, resp')
    /\ UNCHANGED <<budgets, nextBudgetId, nextExpenseId, reqs, today>>

\* fetchExpenses after its await: the response of call i is put on the page
\* and the finally block clears loading
fetchExpensesSettled(i) ==
    /\ i \in 1 .. Len(expensesPage.calls)
    /\ expensesPage.calls[i].state = "answered"
    /\ expensesPage.calls[i].kind = "getExpenses"
    /\ expensesPage' = [expensesPage EXCEPT !.calls[i].state = "settled",
                                            !.expenses = expensesPage.calls[i].answer.expenses,
                                            !.pagination = expensesPage.calls[i].answer.pagination,
                                            !.loading = FALSE]
    /\ UNCHANGED <<budgets, expenses, nextBudgetId, nextExpenseId, reqs, resp, today>>

\* handleSubmitExpense after its await: a success closes the modal and runs
\* fetchExpenses of the render that submitted, a rejection is only logged
handleSubmitExpenseSettled(i) ==
    /\ i \in 1 .. Len(expensesPage.calls)
    /\ expensesPage.calls[i].state = "answered"
    /\ expensesPage.calls[i].kind \in {"addExpense", "updateExpense"}
    /\ LET p == [expensesPage EXCEPT !.calls[i].state = "settled", !.submitting = FALSE]
       IN  expensesPage' =
             IF expensesPage.calls[i].answer.success
             THEN FetchExpensesSent([p EXCEPT !.isModalOpen = FALSE],
                                    expensesPage.calls[i].filters)
             ELSE p
    /\ UNCHANGED <<budgets, expenses, nextBudgetId, nextExpenseId, reqs, resp, today>>

\* handleDeleteExpense after its await
handleDeleteExpenseSettled(i) ==
    /\ i \in 1 .. Len(expensesPage.calls)
    /\ expensesPage.calls[i].state = "answered"
    /\ expensesPage.calls[i].kind = "deleteExpense"
    /\ LET p == [expensesPage EXCEPT !.calls[i].state = "settled"]
       IN  expensesPage' =
             IF expensesPage.calls[i].answer.success
             THEN FetchExpensesSent(p, expensesPage.calls[i].filters)
             ELSE p
    /\ UNCHANGED <<budgets, expenses, nextBudgetId, nextExpenseId, reqs, resp, today>>

\* the calls a run can hold: MaxCalls made by the user and a fetch after each
CallIndexes == 1 .. 2 * MaxCalls

NextPage ==
    \/ \E newFilters \in FilterChanges : handleFilterChange(newFilters)
    \/ handleAddExpense
    \/ \E i \in 1 .. MaxExpenseId : handleEditExpense(i)
    \/ \E expenseData \in SubmitBodies : handleSubmitExpense(expenseData)
    \/ \E i \in 1 .. MaxExpenseId : handleDeleteExpense(i)
    \/ \E i \in CallIndexes : apiGetExpenses(i)
    \/ \E i \in CallIndexes : apiAddExpense(i)
    \/ \E i \in CallIndexes : apiUpdateExpense(i)
    \/ \E i \in CallIndexes : apiDeleteExpense(i)
    \/ \E i \in CallIndexes : fetchExpensesSettled(i)
    \/ \E i \in CallIndexes : handleSubmitExpenseSettled(i)
    \/ \E i \in CallIndexes : handleDeleteExpenseSettled(i)

SpecPage == InitPage /\ [][NextPage]_vars

(***************************************************************************)
(* Claims on ExpensesPage                                                  *)
(***************************************************************************)
\* no call of the page is waiting for the server or for its promise to settle
AllSettled == \A i \in 1 .. Len(expensesPage.calls) : expensesPage.calls[i].state = "settled"

\* no fetch of the page is waiting for the server or for its promise to settle
FetchesSettled ==
    \A i \in 1 .. Len(expensesPage.calls) :
        expensesPage.calls[i].kind = "getExpenses" => expensesPage.calls[i].state = "settled"

\* the fetches sent with the filters the page has now
LatestFilterFetches ==
    {i \in 1 .. Len(expensesPage.calls) :
        /\ expensesPage.calls[i].kind = "getExpenses"
        /\ expensesPage.calls[i].filters = expensesPage.filters}

\* C30: once every call of the page has settled, loading is false and the list
\* and the pagination shown are the answer to the last fetch that was sent
\* with the filters the page has now
C30_LatestFiltersShown ==
    AllSettled =>
        /\ ~expensesPage.loading
        /\ LatestFilterFetches /= {}
        /\ LET i == CHOOSE i \in LatestFilterFetches : \A j \in LatestFilterFetches : j <= i
           IN  /\ expensesPage.expenses = expensesPage.calls[i].answer.expenses
               /\ expensesPage.pagination = expensesPage.calls[i].answer.pagination

====
